---- MODULE Spec2Model ----
(***************************************************************************)
(* A state-machine model of go-trapcheck: the process-wide broker cache     *)
(* (internal/broker_list and the older in-package broker_list.go), broker   *)
(* selection and validation, TLS trust set-up and the submission pipeline.  *)
(***************************************************************************)
EXTENDS Integers, Sequences, FiniteSets, TLC

(***************************************************************************)
(* Bounds of the model.                                                     *)
(***************************************************************************)
\* calls the goroutines make on the broker cache, in total
MaxCalls == 3
\* the clock runs from 0 to MaxClock minutes, TickMinutes at a time
MaxClock == 6
TickMinutes == 3

(***************************************************************************)
(* Program constants.                                                       *)
(***************************************************************************)
\* RefreshBrokers: 5*time.Minute, in minutes
RefreshTTL == 5

(***************************************************************************)
(* Data: brokers as the API returns them.                                   *)
(***************************************************************************)
statusActive == "active"
enterpriseType == "enterprise"
circonusType == "circonus"

\* a nil *string / a nil pointer
NoStr == ""

Detail(status, modules, ip, port, xhost, xport, cn) ==
  [Status |-> status, Modules |-> modules, IP |-> ip, Port |-> port,
   ExternalHost |-> xhost, ExternalPort |-> xport, CN |-> cn]

\* The brokers the backing API knows (apiclient.Broker values), by CID.
BrokerCIDs == {"/broker/1", "/broker/2", "/broker/3", "/broker/4"}

BrokerDB ==
  [c \in BrokerCIDs |->
     CASE c = "/broker/1" ->
            [CID |-> c, Name |-> "one", Type |-> circonusType,
             Tags |-> <<"dc:east">>,
             Details |-> << Detail("unprovisioned", <<"httptrap">>, "10.0.0.1", 0, NoStr, 0, "cn1x"),
                            Detail(statusActive, <<"httptrap">>, "10.0.0.1", 0, NoStr, 0, "cn1"),
                            Detail(statusActive, <<"httptrap">>, NoStr, 0, "10.0.0.1", 0, "cn1b") >>]
       [] c = "/broker/2" ->
            [CID |-> c, Name |-> "two", Type |-> enterpriseType,
             Tags |-> <<"DC:East", "env:prod">>,
             Details |-> << Detail("provisioning", <<"httptrap">>, "10.0.0.9", 0, NoStr, 0, "cn2a"),
                            Detail(statusActive, <<"json", "httptrap">>, NoStr, 0, "10.0.0.2", 0, "cn2b") >>]
       [] c = "/broker/3" ->
            [CID |-> c, Name |-> "three", Type |-> enterpriseType,
             Tags |-> <<"env:prod", "env:prod">>,
             Details |-> << Detail(statusActive, <<"httptrap">>, "10.0.0.3", 0, NoStr, 0, "cn3") >>]
       [] OTHER ->
            [CID |-> c, Name |-> "four", Type |-> circonusType,
             Tags |-> << >>,
             Details |-> << Detail(statusActive, <<"json">>, "10.0.0.4", 0, NoStr, 0, "cn4") >>]]

\* the order in which the API lists the brokers
BrokerOrder == <<"/broker/1", "/broker/2", "/broker/3", "/broker/4">>

RECURSIVE SubSeqsOf(_)
SubSeqsOf(s) ==
  IF s = << >> THEN { << >> }
  ELSE LET rest == SubSeqsOf(Tail(s))
       IN  rest \cup { <<Head(s)>> \o r : r \in rest }

\* what client.FetchBrokers() can return on success: any sub-list of the brokers
ApiLists == SubSeqsOf(BrokerOrder)

\* the lists it returns while goroutines run concurrently (a bound of the model)
ConcurrentApiLists == { << >>, <<"/broker/1">>, <<"/broker/1", "/broker/2", "/broker/3">> }

\* *[]apiclient.Broker: nil, or a pointer to a slice (of CIDs naming BrokerDB entries)
NilList == [nil |-> TRUE, items |-> << >>]
Ptr(l) == [nil |-> FALSE, items |-> l]

\* time.Time: the zero value (year 1), or a reading of the clock
ZeroTime == [zero |-> TRUE, t |-> 0]


\* strings.EqualFold on the tags of the model: equality of the lower-cased tags
ToLower(s) ==
  CASE s = "DC:East" -> "dc:east"
    [] s = "ENV:PROD" -> "env:prod"
    [] OTHER -> s

EqualFold(a, b) == ToLower(a) = ToLower(b)

\* the tag lists callers search with
TagQueries == { <<"dc:east">>, <<"ENV:PROD", "dc:east">>, <<"dc:west">> }

\* the CIDs callers ask for (the last is a CID the API does not know)
CallCIDs == {"", "/broker/1", "/broker/7"}

(***************************************************************************)
(* Data: URLs, check types, check bundles, TLS configurations.              *)
(***************************************************************************)
\* a URL string, by the parts url.Parse finds in it; NoURL is the string ""
URL(scheme, host, path) == [scheme |-> scheme, host |-> host, path |-> path]
NoURL == URL("", "", "")

\* net.ParseIP(host) != nil
IsIP(host) ==
  host \in {"10.0.0.1", "10.0.0.2", "10.0.0.3", "10.0.0.4", "10.0.0.9", "127.0.0.1"}

\* strings.Contains(u, "api.circonus.com"), for the URLs of the model
ContainsPublicName(u) ==
  \/ u.host \in {"api.circonus.com", "api.circonus.com.example.net"}
  \/ u.path \in {"/api.circonus.com/trap"}

\* A check type is kept as strings.Split(type, ":") gives it; "" is the empty sequence.
\* baseType: the text before the first ":" when that ":" is not the first character
BaseType(checkType) ==
  IF Len(checkType) >= 2 /\ checkType[1] # "" THEN <<checkType[1]>> ELSE checkType

\* strings.HasPrefix(type, "httptrap")
HasPrefixHttptrap(checkType) ==
  Len(checkType) > 0 /\ checkType[1] \in {"httptrap", "httptrap2"}

\* variant of ContainsHttptrap that finds the text in no check type
ContainsNoHttptrap(checkType) == FALSE

\* strings.Contains(strings.ToLower(checkType), "httptrap")
ContainsHttptrap(checkType) ==
  \E k \in 1..Len(checkType) : checkType[k] \in {"httptrap", "httptrap2", "HTTPTRAP"}

\* *apiclient.CheckBundle: nil, or a bundle; hasURL: Config has the key submission_url
NilBundle ==
  [nil |-> TRUE, CID |-> "", Brokers |-> << >>, Type |-> << >>, hasURL |-> FALSE,
   url |-> NoURL, Status |-> "", CheckUUIDs |-> << >>]

Bundle(cid, brokers, type, hasURL, url, status, uuids) ==
  [nil |-> FALSE, CID |-> cid, Brokers |-> brokers, Type |-> type, hasURL |-> hasURL,
   url |-> url, Status |-> status, CheckUUIDs |-> uuids]

BundleCID == "/check_bundle/1"

\* the submission URL of a check on broker c (plain http on the broker named last)
BrokerURL(c) ==
  CASE c = "/broker/1" -> URL("https", "10.0.0.1", "/module/httptrap/u1/s")
    [] c = "/broker/2" -> URL("https", "10.0.0.2", "/module/httptrap/u1/s")
    [] c = "/broker/3" -> URL("https", "10.0.0.3", "/module/httptrap/u1/s")
    [] OTHER -> URL("http", "10.0.0.4", "/module/httptrap/u1/s")

\* the check bundle as the API serves it: the check may sit on any broker
BundleOn(c) ==
  Bundle(BundleCID, <<c>>, <<"httptrap">>, TRUE, BrokerURL(c), statusActive, <<"u1">>)

\* what client.FetchCheckBundle can return on success
ApiBundles ==
  { BundleOn("/broker/1"), BundleOn("/broker/2"), BundleOn("/broker/4"),
    Bundle(BundleCID, <<"/broker/1">>, <<"httptrap">>, TRUE,
           URL("https", "api.circonus.com", "/module/httptrap/u1/s"), statusActive, <<"u1">>),
    Bundle(BundleCID, <<"/broker/3">>, <<"httptrap">>, TRUE,
           URL("https", "broker.example.com", "/module/httptrap/u1/s"), statusActive, <<"u1">>),
    Bundle(BundleCID, <<"/broker/1">>, <<"httptrap">>, FALSE, NoURL, statusActive, <<"u1">>),
    Bundle(BundleCID, <<"/broker/1">>, <<"httptrap">>, TRUE, BrokerURL("/broker/1"),
           "disabled", <<"u1">>),
    Bundle(BundleCID, << >>, <<"httptrap">>, TRUE, BrokerURL("/broker/1"), statusActive, << >>) }

\* the result of an API call that yields a check bundle: an error, or a bundle
BundleResults(bundles) ==
  { [ok |-> FALSE, bundle |-> NilBundle] } \cup { [ok |-> TRUE, bundle |-> b] : b \in bundles }

\* what client.SearchCheckBundles can return: an error, or a list of bundles
SearchResults ==
  { [ok |-> FALSE, list |-> << >>], [ok |-> TRUE, list |-> << >>],
    [ok |-> TRUE, list |-> << BundleOn("/broker/1") >>],
    [ok |-> TRUE, list |-> << BundleOn("/broker/1"), BundleOn("/broker/2") >>] }

\* what client.Get("/pki/ca.crt") can return
CertResults == {"error", "not json", "no contents", "not pem", "pem"}

\* *tls.Config: nil, the caller's configuration, or one pinned to a broker; cnList
\* is the string the VerifyConnection closure of a pinned configuration holds
NilTLS == [nil |-> TRUE, pinned |-> FALSE, ServerName |-> "", cnList |-> ""]
PinnedTLS(cn, cnList) == [nil |-> FALSE, pinned |-> TRUE, ServerName |-> cn, cnList |-> cnList]

\* the hosts the brokers' instances listen on, and how many dials to a host fail
\* before one succeeds (retries or more: none succeeds while a broker is probed)
ProbeHosts == {"10.0.0.1", "10.0.0.2", "10.0.0.3", "10.0.0.4", "10.0.0.9"}
NetUp == [h \in ProbeHosts |-> 0]

(***************************************************************************)
(* Data: sessions, configurations, payloads.                                *)
(***************************************************************************)
\* the zero TrapCheck; live: New has returned this session to the application
NoSession ==
  [live |-> FALSE, checkConfig |-> NilBundle, checkBundle |-> NilBundle, broker |-> NoStr,
   tlsConfig |-> NilTLS, custTLSConfig |-> FALSE, custSubmissionURL |-> NoURL,
   submissionURL |-> NoURL, traceMetrics |-> "", brokerSelectTags |-> << >>,
   newCheckBundle |-> FALSE, usingPublicCA |-> FALSE, brokerList |-> 0]

\* *Config; isNil: the nil pointer
MakeConfig(client, checkConfig, tls, surl, publicCA, trace, maxResp, timeout, tags) ==
  [isNil |-> FALSE, Client |-> client, CheckConfig |-> checkConfig, SubmitTLSConfig |-> tls,
   SubmissionURL |-> surl, PublicCA |-> publicCA, TraceMetrics |-> trace,
   BrokerMaxResponseTime |-> maxResp, SubmissionTimeout |-> timeout,
   BrokerSelectTags |-> tags]

AgentURL == URL("http", "127.0.0.1", "/write/app")

\* CheckConfig values: a bundle to fetch by CID, a broker to create the check on
ConfigByCID == Bundle(BundleCID, << >>, << >>, FALSE, NoURL, "", << >>)
ConfigOnBroker(c, type, hasURL) ==
  Bundle("", <<c>>, type, hasURL, IF hasURL THEN BrokerURL(c) ELSE NoURL, "", << >>)

\* the configurations the application calls New with
Configs ==
  { [MakeConfig(TRUE, NilBundle, FALSE, NoURL, FALSE, "", "", "", << >>) EXCEPT !.isNil = TRUE],
    MakeConfig(FALSE, NilBundle, FALSE, NoURL, FALSE, "", "", "", << >>),
    MakeConfig(TRUE, ConfigByCID, FALSE, NoURL, FALSE, "", "1x", "", << >>),
    MakeConfig(TRUE, ConfigByCID, FALSE, NoURL, FALSE, "", "", "1x", << >>),
    MakeConfig(TRUE, ConfigOnBroker("/broker/2", <<"json">>, FALSE), FALSE, NoURL, FALSE,
               "", "", "", << >>) }
  \cup { MakeConfig(TRUE, ConfigByCID, tls, NoURL, pca, "", "", "", << >>) :
           tls \in BOOLEAN, pca \in BOOLEAN }
  \cup { MakeConfig(TRUE, ConfigByCID, FALSE, NoURL, FALSE, trace, "", "", << >>) :
           trace \in {"-", "/nodir"} }
  \cup { MakeConfig(TRUE, cc, FALSE, NoURL, FALSE, "", "", "", tags) :
           cc \in { NilBundle, ConfigOnBroker("/broker/2", <<"httptrap", "cua">>, FALSE) },
           tags \in { << >>, <<"env:prod">> } }
  \cup { MakeConfig(TRUE, cc, tls, surl, FALSE, "", "", "", << >>) :
           cc \in { NilBundle, ConfigOnBroker("/broker/1", <<"httptrap">>, TRUE) },
           tls \in BOOLEAN, surl \in { AgentURL, URL("https", "10.0.0.9", "/write/app") } }

\* the configurations and the bundles the application calls NewFromCheckBundle with
FromBundleConfigs ==
  { [MakeConfig(TRUE, NilBundle, FALSE, NoURL, FALSE, "", "", "", << >>) EXCEPT !.isNil = TRUE],
    MakeConfig(TRUE, NilBundle, FALSE, NoURL, FALSE, "", "", "1x", << >>) }
  \cup { MakeConfig(TRUE, NilBundle, FALSE, surl, FALSE, "", "", "", << >>) :
           surl \in { NoURL, AgentURL } }

UserBundles ==
  { NilBundle, BundleOn("/broker/1"), BundleOn("/broker/4"),
    Bundle(BundleCID, <<"/broker/2">>, <<"httptrap">>, TRUE,
           URL("https", "10.0.0.9", "/module/httptrap/u1/s"), statusActive, <<"u1">>),
    Bundle(BundleCID, <<"/broker/1">>, <<"httptrap">>, FALSE, NoURL, statusActive, <<"u1">>),
    Bundle(BundleCID, <<"/broker/1">>, <<"json">>, TRUE, BrokerURL("/broker/1"),
           statusActive, <<"u1">>) }

\* time.ParseDuration on the duration strings of the model
ParseDurationOK(s) == s \in {"500ms", "10s"}

\* os.Stat / TempFile on the trace settings of the model: "/trace" is a writable directory
TraceDirOK(dir) == dir \in {"-", "/trace"}

\* the metrics the application submits: bytes.Buffer contents of these lengths
compressionThreshold == 1024
PayloadLengths == {0, compressionThreshold, compressionThreshold + 1}
Payload == [n \in PayloadLengths |-> [i \in 1..n |-> (i * 31) % 256]]

\* compress/gzip.  The stream is the header, the coded data and, written by Close,
\* the trailer with the length of the data (ISIZE; the payloads here are far shorter
\* than 2^32 bytes); the coding of the data is byte-wise.
GzipHeader == <<31, 139, 8>>
Deflate(p) == [i \in 1..Len(p) |-> (p[i] + 101) % 256]
Inflate(d) == [i \in 1..Len(d) |-> (d[i] + 155) % 256]

\* what gzip.NewWriter(subData), Write of p and Close have put into subData
GzipOutput(p) == GzipHeader \o Deflate(p) \o << Len(p) >>

\* gzip.NewReader + ReadAll, as the receiving broker does
Gunzip(b) ==
  LET n == Len(b) - Len(GzipHeader) - 1 IN
  IF n >= 0 /\ SubSeq(b, 1, Len(GzipHeader)) = GzipHeader /\ b[Len(b)] = n
  THEN [ok |-> TRUE, data |-> Inflate(SubSeq(b, Len(GzipHeader) + 1, Len(b) - 1))]
  ELSE [ok |-> FALSE, data |-> << >>]

\* an HTTP request as submit builds it
NoReq == [body |-> << >>, contentLength |-> 0, contentEncoding |-> "", url |-> NoURL,
          compressed |-> FALSE]

\* what a submit, a refreshCheck or a call on the session returns
NoOutcome == [kind |-> "-", err |-> "", refresh |-> FALSE, status |-> 0, bytesSent |-> 0,
              resultError |-> "", checkUUID |-> "", serverError |-> "", submitUUID |-> ""]

NoCall ==
  [op |-> "-", metrics |-> << >>, metricLen |-> 0, entry |-> NoSession,
   nSubmit |-> 0, nRefresh |-> 0, nFetchBundle |-> 0, nLookup |-> 0, nCA |-> 0, httpSent |-> FALSE,
   attempt |-> 0, checkType |-> << >>, req |-> NoReq, first |-> NoOutcome, second |-> NoOutcome,
   refreshed |-> "-", retpc |-> "-", ret |-> NoOutcome,
   peerCN |-> "", chainOK |-> FALSE, mismatch |-> FALSE, trace |-> "-", arg |-> "",
   prev |-> "", details |-> << >>, dials |-> << >>, valid |-> FALSE, submitUUID |-> "n/a",
   search |-> [ok |-> FALSE, list |-> << >>], found |-> FALSE,
   bundleTags |-> << >>, newTags |-> << >>, tagsAfter |-> << >>, nUpdate |-> 0]

(***************************************************************************)
(* State.                                                                   *)
(***************************************************************************)
VARIABLES
  heap,                \* the brokerList / brokers structs allocated so far
  brokerListInstance,  \* the package variable: 0 (nil) or an index into heap
  proc,                \* per goroutine: position in its cache call, locals, last return
  now,                 \* the clock, in minutes
  fetchedAt,           \* history: per struct, when FetchBrokers last succeeded (-1: never)
  hist,                \* history: counters of the Init calls made so far
  tc,                  \* the session (*TrapCheck) the application holds
  pc,                  \* where the application's goroutine is in its call on the session
  call,                \* the locals of that call, and what it has done so far
  net,                 \* per host: the dials that fail before one succeeds
  proxy                \* whether HTTP_PROXY / HTTPS_PROXY is set in the environment

cacheVars == <<heap, brokerListInstance, proc, now, fetchedAt, hist>>

sessVars == <<tc, pc, call, net, proxy>>

vars == <<heap, brokerListInstance, proc, now, fetchedAt, hist, tc, pc, call, net, proxy>>

Goroutines == {"g1", "g2"}
NoG == "none"

\* &brokerList{client: client, logger: logger} / &brokers{}
NewCache(client, logger) ==
  [client |-> client, logger |-> logger, brokers |-> NilList,
   lastRefresh |-> ZeroTime, mu |-> NoG]

NoRet ==
  [op |-> "-", kind |-> "-", err |-> "", val |-> << >>, cls |-> "-", nApi |-> 0, fresh |-> FALSE]

IdleProc ==
  [pc |-> "idle", op |-> "-", caller |-> "-", recv |-> 0, own |-> 0, handle |-> 0,
   cid |-> "", tags |-> << >>, nApi |-> 0, fresh |-> FALSE, cls |-> "-",
   ret |-> NoRet]

NoHist ==
  [calls |-> 0, initCalls |-> 0, initDone |-> 0, initNil |-> 0, initApi |-> 0,
   initApiFail |-> 0, otherCalls |-> 0]

\* what client.FetchBrokers() returns: an error, or a list
ApiResults(lists) ==
  { [ok |-> FALSE, list |-> << >>] } \cup { [ok |-> TRUE, list |-> l] : l \in lists }

\* the state of the snapshot, as the three read operations distinguish it
SnapshotClass(b, found) ==
  IF b.nil THEN "nil"
  ELSE IF Len(b.items) = 0 THEN "empty"
  ELSE IF found THEN "present" ELSE "absent"

(***************************************************************************)
(* Steps shared by the operations.                                          *)
(***************************************************************************)
\* a call begins: goroutine g leaves "idle"
Begin(g, op, at, recv, cid, tags) ==
  [proc[g] EXCEPT !.pc = at, !.op = op, !.caller = op, !.recv = recv, !.cid = cid,
                  !.tags = tags, !.nApi = 0, !.cls = "-",
                  !.fresh = (recv # 0 /\ fetchedAt[recv] >= 0 /\ now - fetchedAt[recv] < RefreshTTL)]

\* a call returns: goroutine g is "idle" again and its return value is recorded
Returned(p, kind, err, val) ==
  [p EXCEPT !.pc = "idle",
            !.ret = [op |-> p.op, kind |-> kind, err |-> err, val |-> val,
                     cls |-> p.cls, nApi |-> p.nApi, fresh |-> p.fresh]]

CanCall(g) == proc[g].pc = "idle" /\ hist.calls < MaxCalls

\* bl.Lock(): blocks until the mutex is free
MutexLock(g, i) ==
  /\ heap[i].mu = NoG
  /\ heap' = [heap EXCEPT ![i].mu = g]

\* time.Since(bl.lastRefresh) > 5*time.Minute
Stale(t) == t.zero \/ now - t.t > RefreshTTL


(***************************************************************************)
(* The broker cache, internal/broker_list (type brokerList).  RefreshBrokers,*)
(* FetchBrokers and GetBrokerList are the same code in broker_list.go.      *)
(***************************************************************************)
\* func Init(client, logger): the nil checks
Init_call(g) ==
  /\ CanCall(g)
  /\ \E client \in BOOLEAN, logger \in BOOLEAN :
       LET p == Begin(g, "Init", "Init_check", 0, "", << >>) IN
       IF ~client THEN
         /\ proc' = [proc EXCEPT ![g] = Returned(p, "err", "invalid init call, client is nil", << >>)]
         /\ hist' = [hist EXCEPT !.calls = @ + 1]
       ELSE IF ~logger THEN
         /\ proc' = [proc EXCEPT ![g] = Returned(p, "err", "invalid init call, logger is nil", << >>)]
         /\ hist' = [hist EXCEPT !.calls = @ + 1]
       ELSE
         /\ proc' = [proc EXCEPT ![g] = p]
         /\ hist' = [hist EXCEPT !.calls = @ + 1, !.initCalls = @ + 1]
  /\ UNCHANGED <<heap, brokerListInstance, now, fetchedAt, sessVars>>

\* if brokerListInstance != nil { return nil }
Init_check(g) ==
  /\ proc[g].pc = "Init_check"
  /\ IF brokerListInstance # 0 THEN
       /\ proc' = [proc EXCEPT ![g] = Returned(proc[g], "ok", "", << >>)]
       /\ hist' = [hist EXCEPT !.initDone = @ + 1, !.initNil = @ + 1]
     ELSE
       /\ proc' = [proc EXCEPT ![g].pc = "Init_new"]
       /\ UNCHANGED hist
  /\ UNCHANGED <<heap, brokerListInstance, now, fetchedAt, sessVars>>

\* brokerListInstance = &brokerList{client: client, logger: logger}
Init_new(g) ==
  /\ proc[g].pc = "Init_new"
  /\ heap' = Append(heap, NewCache(TRUE, TRUE))
  /\ fetchedAt' = Append(fetchedAt, -1)
  /\ brokerListInstance' = Len(heap) + 1
  /\ proc' = [proc EXCEPT ![g].pc = "Init_fetch", ![g].own = Len(heap) + 1]
  /\ UNCHANGED <<now, hist, sessVars>>

\* return brokerListInstance.FetchBrokers(): the package variable is read again,
\* without synchronisation; the read yields this goroutine's struct or the one
\* another goroutine has stored since
Init_fetch(g) ==
  /\ proc[g].pc = "Init_fetch"
  /\ \E i \in {proc[g].own, brokerListInstance} :
       proc' = [proc EXCEPT ![g].pc = "FetchBrokers_Lock", ![g].recv = i]
  /\ UNCHANGED <<heap, brokerListInstance, now, fetchedAt, hist, sessVars>>

\* func GetInstance()
GetInstance(g) ==
  /\ proc[g].pc = "idle"
  /\ brokerListInstance # 0
  /\ proc[g].handle # brokerListInstance
  /\ proc' = [proc EXCEPT ![g].handle = brokerListInstance]
  /\ UNCHANGED <<heap, brokerListInstance, now, fetchedAt, hist, sessVars>>

\* func (bl) RefreshBrokers(): lastRefresh is read without the mutex
RefreshBrokers(g) ==
  /\ CanCall(g)
  /\ proc[g].handle # 0
  /\ LET i == proc[g].handle
         p == Begin(g, "RefreshBrokers", "FetchBrokers_Lock", i, "", << >>) IN
       IF Stale(heap[i].lastRefresh)
       THEN proc' = [proc EXCEPT ![g] = p]
       ELSE proc' = [proc EXCEPT ![g] = Returned(p, "ok", "", << >>)]
  /\ hist' = [hist EXCEPT !.calls = @ + 1, !.otherCalls = 1]
  /\ UNCHANGED <<heap, brokerListInstance, now, fetchedAt, sessVars>>

\* func (bl) FetchBrokers(), called by the user of the cache
FetchBrokers(g) ==
  /\ CanCall(g)
  /\ proc[g].handle # 0
  /\ proc' = [proc EXCEPT ![g] =
                Begin(g, "FetchBrokers", "FetchBrokers_Lock", proc[g].handle, "", << >>)]
  /\ hist' = [hist EXCEPT !.calls = @ + 1, !.otherCalls = 1]
  /\ UNCHANGED <<heap, brokerListInstance, now, fetchedAt, sessVars>>

\* FetchBrokers: bl.Lock(); defer bl.Unlock()
FetchBrokers_Lock(g) ==
  /\ proc[g].pc = "FetchBrokers_Lock"
  /\ MutexLock(g, proc[g].recv)
  /\ proc' = [proc EXCEPT ![g].pc = "FetchBrokers_api"]
  /\ UNCHANGED <<brokerListInstance, now, fetchedAt, hist, sessVars>>

\* what the caller of FetchBrokers does with its result (err = "" for nil)
AfterFetch(p, err) ==
  IF p.caller = "GetBroker" THEN
    \* FetchBrokers' deferred Unlock has released the mutex; GetBroker's own
    \* deferred Unlock then finds it unlocked: a fatal runtime error
    Returned(p, "panic", "sync: unlock of unlocked mutex", << >>)
  ELSE IF err = "" THEN Returned(p, "ok", "", << >>)
  ELSE Returned(p, "err", err, << >>)

\* variant of FetchBrokers that stores the list before it tests the error
FetchBrokers_storeFirst(g) ==
  /\ proc[g].pc = "FetchBrokers_api"
  /\ LET i == proc[g].recv
         p == [proc[g] EXCEPT !.nApi = @ + 1] IN
       \E r \in ApiResults(ConcurrentApiLists) :
         /\ heap' = [heap EXCEPT ![i].brokers = IF r.ok THEN Ptr(r.list) ELSE NilList,
                                 ![i].mu = NoG]
         /\ fetchedAt' = [fetchedAt EXCEPT ![i] = IF r.ok THEN now ELSE @]
         /\ proc' = [proc EXCEPT ![g] =
                       AfterFetch(p, IF r.ok THEN "" ELSE "error fetching broker list")]
         /\ UNCHANGED hist
  /\ UNCHANGED <<brokerListInstance, now, sessVars>>

\* FetchBrokers: list, err := bl.client.FetchBrokers(); bl.brokers = list; Unlock
FetchBrokers_api(g) ==
  /\ proc[g].pc = "FetchBrokers_api"
  /\ LET i == proc[g].recv
         p == [proc[g] EXCEPT !.nApi = @ + 1]
         fromInit == proc[g].caller = "Init" IN
       IF ~heap[i].client THEN
         \* bl.client is a nil interface: the call panics, the deferred Unlock runs
         /\ heap' = [heap EXCEPT ![i].mu = NoG]
         /\ proc' = [proc EXCEPT ![g] = Returned(proc[g], "panic", "nil pointer dereference", << >>)]
         /\ UNCHANGED <<fetchedAt, hist>>
       ELSE
         \E r \in ApiResults(ConcurrentApiLists) :
           IF r.ok THEN
             /\ heap' = [heap EXCEPT ![i].brokers = Ptr(r.list), ![i].mu = NoG]
             /\ fetchedAt' = [fetchedAt EXCEPT ![i] = now]
             /\ proc' = [proc EXCEPT ![g] = AfterFetch(p, "")]
             /\ hist' = IF fromInit
                        THEN [hist EXCEPT !.initApi = @ + 1, !.initDone = @ + 1, !.initNil = @ + 1]
                        ELSE hist
           ELSE
             /\ heap' = [heap EXCEPT ![i].mu = NoG]
             /\ proc' = [proc EXCEPT ![g] = AfterFetch(p, "error fetching broker list")]
             /\ hist' = IF fromInit
                        THEN [hist EXCEPT !.initApi = @ + 1, !.initDone = @ + 1, !.initApiFail = @ + 1]
                        ELSE hist
             /\ UNCHANGED fetchedAt
  /\ UNCHANGED <<brokerListInstance, now, sessVars>>

\* func (bl) GetBrokerList(): bl.Lock(); defer bl.Unlock()
GetBrokerList(g) ==
  /\ CanCall(g)
  /\ proc[g].handle # 0
  /\ MutexLock(g, proc[g].handle)
  /\ proc' = [proc EXCEPT ![g] =
                Begin(g, "GetBrokerList", "GetBrokerList_body", proc[g].handle, "", << >>)]
  /\ hist' = [hist EXCEPT !.calls = @ + 1, !.otherCalls = 1]
  /\ UNCHANGED <<brokerListInstance, now, fetchedAt, sessVars>>

\* the result of GetBrokerList on snapshot b
GetBrokerListResult(b) ==
  IF b.nil THEN [kind |-> "err", err |-> "invalid state, broker list is nil", val |-> << >>]
  ELSE IF Len(b.items) = 0
  THEN [kind |-> "err", err |-> "invalid state, empty broker list", val |-> << >>]
  ELSE [kind |-> "ok", err |-> "", val |-> b.items]

GetBrokerList_body(g) ==
  /\ proc[g].pc = "GetBrokerList_body"
  /\ LET i == proc[g].recv
         b == heap[i].brokers
         r == GetBrokerListResult(b)
         p == [proc[g] EXCEPT !.cls = SnapshotClass(b, TRUE)] IN
       /\ proc' = [proc EXCEPT ![g] = Returned(p, r.kind, r.err, r.val)]
       /\ heap' = [heap EXCEPT ![i].mu = NoG]
  /\ UNCHANGED <<brokerListInstance, now, fetchedAt, hist, sessVars>>

\* for _, b := range *bl.brokers { if b.CID == cid { return b, nil } }
ScanForCID(items, cid) ==
  IF \E k \in 1..Len(items) : items[k] = cid
  THEN [kind |-> "ok", err |-> "", val |-> <<cid>>]
  ELSE [kind |-> "err", err |-> "no broker with CID found", val |-> << >>]

HasCID(items, cid) == \E k \in 1..Len(items) : items[k] = cid

\* func (bl *brokerList) GetBroker(cid): the cid check, then bl.Lock()
GetBroker(g) ==
  /\ CanCall(g)
  /\ proc[g].handle # 0
  /\ \E cid \in CallCIDs :
       LET p == Begin(g, "GetBroker", "GetBroker_body", proc[g].handle, cid, << >>) IN
       IF cid = "" THEN
         /\ proc' = [proc EXCEPT ![g] = Returned(p, "err", "invalid cid (empty)", << >>)]
         /\ UNCHANGED heap
       ELSE
         /\ MutexLock(g, proc[g].handle)
         /\ proc' = [proc EXCEPT ![g] = p]
  /\ hist' = [hist EXCEPT !.calls = @ + 1, !.otherCalls = 1]
  /\ UNCHANGED <<brokerListInstance, now, fetchedAt, sessVars>>

\* GetBroker under the mutex: nil check, refetch when empty, scan
GetBroker_body(g) ==
  /\ proc[g].pc = "GetBroker_body"
  /\ LET i == proc[g].recv
         b == heap[i].brokers
         p == [proc[g] EXCEPT !.cls = SnapshotClass(b, HasCID(b.items, proc[g].cid))] IN
       IF b.nil THEN
         /\ proc' = [proc EXCEPT ![g] =
                       Returned(p, "err", "invalid state, broker list is nil", << >>)]
         /\ heap' = [heap EXCEPT ![i].mu = NoG]
       ELSE IF Len(b.items) = 0 THEN
         \* bl.FetchBrokers() is called with the mutex still held by this goroutine
         /\ proc' = [proc EXCEPT ![g] = [p EXCEPT !.pc = "FetchBrokers_Lock", !.caller = "GetBroker"]]
         /\ UNCHANGED heap
       ELSE
         LET r == ScanForCID(b.items, proc[g].cid) IN
         /\ proc' = [proc EXCEPT ![g] = Returned(p, r.kind, r.err, r.val)]
         /\ heap' = [heap EXCEPT ![i].mu = NoG]
  /\ UNCHANGED <<brokerListInstance, now, fetchedAt, hist, sessVars>>

\* the inner loops of SearchBrokerList: the tags of the broker that equal some search tag
NumTagsFound(btags, stags) ==
  Cardinality({ k \in 1..Len(btags) :
                  \E j \in 1..Len(stags) : EqualFold(btags[k], stags[j]) })

TagsMatch(cid, stags) == NumTagsFound(BrokerDB[cid].Tags, stags) = Len(stags)

\* the list SearchBrokerList builds from a non-empty snapshot
SearchResult(items, stags) == SelectSeq(items, LAMBDA c : TagsMatch(c, stags))

\* func (bl *brokerList) SearchBrokerList(searchTags): bl.Lock(); defer bl.Unlock()
SearchBrokerList(g) ==
  /\ CanCall(g)
  /\ proc[g].handle # 0
  /\ MutexLock(g, proc[g].handle)
  /\ \E tags \in TagQueries :
       proc' = [proc EXCEPT ![g] =
                  Begin(g, "SearchBrokerList", "SearchBrokerList_body", proc[g].handle, "", tags)]
  /\ hist' = [hist EXCEPT !.calls = @ + 1, !.otherCalls = 1]
  /\ UNCHANGED <<brokerListInstance, now, fetchedAt, sessVars>>

SearchBrokerList_body(g) ==
  /\ proc[g].pc = "SearchBrokerList_body"
  /\ LET i == proc[g].recv
         b == heap[i].brokers
         found == SearchResult(b.items, proc[g].tags)
         p == [proc[g] EXCEPT !.cls = SnapshotClass(b, Len(found) > 0)] IN
       /\ proc' = [proc EXCEPT ![g] =
            IF b.nil THEN Returned(p, "err", "invalid state, broker list is nil", << >>)
            ELSE IF Len(b.items) = 0
            THEN Returned(p, "err", "invalid state, empty broker list", << >>)
            ELSE Returned(p, "ok", "", found)]
       /\ heap' = [heap EXCEPT ![i].mu = NoG]
  /\ UNCHANGED <<brokerListInstance, now, fetchedAt, hist, sessVars>>

\* time passes
Tick ==
  /\ now + TickMinutes <= MaxClock
  /\ now' = now + TickMinutes
  /\ UNCHANGED <<heap, brokerListInstance, proc, fetchedAt, hist, sessVars>>

InitBrokerList ==
  /\ heap = << >>
  /\ fetchedAt = << >>
  /\ brokerListInstance = 0
  /\ proc = [g \in Goroutines |-> IdleProc]
  /\ now = 0
  /\ hist = NoHist
  /\ tc = NoSession
  /\ pc = "init"
  /\ call = NoCall
  /\ net = NetUp
  /\ proxy = FALSE

NextBrokerList ==
  \/ \E g \in Goroutines :
       \/ Init_call(g)
       \/ Init_check(g)
       \/ Init_new(g)
       \/ Init_fetch(g)
       \/ GetInstance(g)
       \/ RefreshBrokers(g)
       \/ FetchBrokers(g)
       \/ FetchBrokers_Lock(g)
       \/ FetchBrokers_api(g)
       \/ GetBrokerList(g)
       \/ GetBrokerList_body(g)
       \/ GetBroker(g)
       \/ GetBroker_body(g)
       \/ SearchBrokerList(g)
       \/ SearchBrokerList_body(g)
  \/ Tick

SpecBrokerList == InitBrokerList /\ [][NextBrokerList]_vars


(***************************************************************************)
(* The broker cache of broker_list.go (type brokers, package variable       *)
(* brokerList allocated by init()): the operations whose code differs.      *)
(***************************************************************************)
\* func (bl *brokers) Init(client, logger): the nil checks, then bl.Lock()
brokers_Init(g) ==
  /\ CanCall(g)
  /\ \E client \in BOOLEAN, logger \in BOOLEAN :
       LET p == Begin(g, "Init", "brokers_Init_body", proc[g].handle, "", << >>) IN
       IF ~client THEN
         /\ proc' = [proc EXCEPT ![g] = Returned(p, "err", "invalid init call, client is nil", << >>)]
         /\ hist' = [hist EXCEPT !.calls = @ + 1]
         /\ UNCHANGED heap
       ELSE IF ~logger THEN
         /\ proc' = [proc EXCEPT ![g] = Returned(p, "err", "invalid init call, logger is nil", << >>)]
         /\ hist' = [hist EXCEPT !.calls = @ + 1]
         /\ UNCHANGED heap
       ELSE
         /\ MutexLock(g, proc[g].handle)
         /\ proc' = [proc EXCEPT ![g] = p]
         /\ hist' = [hist EXCEPT !.calls = @ + 1, !.initCalls = @ + 1]
  /\ UNCHANGED <<brokerListInstance, now, fetchedAt, sessVars>>

\* Init under the mutex: keep the first client and logger; the mutex is released
\* before FetchBrokers is called when the snapshot is nil
brokers_Init_body(g) ==
  /\ proc[g].pc = "brokers_Init_body"
  /\ LET i == proc[g].recv IN
       /\ heap' = [heap EXCEPT ![i].client = TRUE, ![i].logger = TRUE, ![i].mu = NoG]
       /\ IF heap[i].brokers.nil THEN
            /\ proc' = [proc EXCEPT ![g].pc = "FetchBrokers_Lock"]
            /\ UNCHANGED hist
          ELSE
            /\ proc' = [proc EXCEPT ![g] = Returned(proc[g], "ok", "", << >>)]
            /\ hist' = [hist EXCEPT !.initDone = @ + 1, !.initNil = @ + 1]
  /\ UNCHANGED <<brokerListInstance, now, fetchedAt, sessVars>>

\* func (bl *brokers) GetBroker(cid): the cid check, then bl.Lock()
brokers_GetBroker(g) ==
  /\ CanCall(g)
  /\ \E cid \in CallCIDs :
       LET p == Begin(g, "GetBroker", "brokers_GetBroker_body", proc[g].handle, cid, << >>) IN
       IF cid = "" THEN
         /\ proc' = [proc EXCEPT ![g] = Returned(p, "err", "invalid cid (empty)", << >>)]
         /\ UNCHANGED heap
       ELSE
         /\ MutexLock(g, proc[g].handle)
         /\ proc' = [proc EXCEPT ![g] = p]
  /\ hist' = [hist EXCEPT !.calls = @ + 1, !.otherCalls = 1]
  /\ UNCHANGED <<brokerListInstance, now, fetchedAt, sessVars>>

\* GetBroker under the mutex: len(*bl.brokerList) with no nil check
brokers_GetBroker_body(g) ==
  /\ proc[g].pc = "brokers_GetBroker_body"
  /\ LET i == proc[g].recv
         b == heap[i].brokers
         p == [proc[g] EXCEPT !.cls = SnapshotClass(b, HasCID(b.items, proc[g].cid))] IN
       IF b.nil THEN
         \* nil pointer dereference: the call panics, the deferred Unlock runs
         /\ proc' = [proc EXCEPT ![g] = Returned(p, "panic", "nil pointer dereference", << >>)]
         /\ heap' = [heap EXCEPT ![i].mu = NoG]
       ELSE IF Len(b.items) = 0 THEN
         /\ proc' = [proc EXCEPT ![g] = [p EXCEPT !.pc = "FetchBrokers_Lock", !.caller = "GetBroker"]]
         /\ UNCHANGED heap
       ELSE
         LET r == ScanForCID(b.items, proc[g].cid) IN
         /\ proc' = [proc EXCEPT ![g] = Returned(p, r.kind, r.err, r.val)]
         /\ heap' = [heap EXCEPT ![i].mu = NoG]
  /\ UNCHANGED <<brokerListInstance, now, fetchedAt, hist, sessVars>>

\* func (bl *brokers) SearchBrokerList(searchTags): bl.Lock(); bl.Unlock() -- the
\* mutex is released at once and the snapshot is then read without it
brokers_SearchBrokerList(g) ==
  /\ CanCall(g)
  /\ heap[proc[g].handle].mu = NoG
  /\ \E tags \in TagQueries :
       proc' = [proc EXCEPT ![g] =
                  Begin(g, "SearchBrokerList", "brokers_Search_nil", proc[g].handle, "", tags)]
  /\ hist' = [hist EXCEPT !.calls = @ + 1, !.otherCalls = 1]
  /\ UNCHANGED <<heap, brokerListInstance, now, fetchedAt, sessVars>>

\* if bl.brokerList == nil
brokers_Search_nil(g) ==
  /\ proc[g].pc = "brokers_Search_nil"
  /\ LET b == heap[proc[g].recv].brokers IN
       proc' = [proc EXCEPT ![g] =
         IF b.nil
         THEN Returned([proc[g] EXCEPT !.cls = "nil"], "err", "invalid state, broker list is nil", << >>)
         ELSE [proc[g] EXCEPT !.pc = "brokers_Search_len"]]
  /\ UNCHANGED <<heap, brokerListInstance, now, fetchedAt, hist, sessVars>>

\* if len(*bl.brokerList) == 0
brokers_Search_len(g) ==
  /\ proc[g].pc = "brokers_Search_len"
  /\ LET b == heap[proc[g].recv].brokers IN
       proc' = [proc EXCEPT ![g] =
         IF Len(b.items) = 0
         THEN Returned([proc[g] EXCEPT !.cls = "empty"], "err", "invalid state, empty broker list", << >>)
         ELSE [proc[g] EXCEPT !.pc = "brokers_Search_range"]]
  /\ UNCHANGED <<heap, brokerListInstance, now, fetchedAt, hist, sessVars>>

\* for _, b := range *bl.brokerList { ... }; return &list, nil
brokers_Search_range(g) ==
  /\ proc[g].pc = "brokers_Search_range"
  /\ LET b == heap[proc[g].recv].brokers
         found == SearchResult(b.items, proc[g].tags)
         p == [proc[g] EXCEPT !.cls = SnapshotClass(b, Len(found) > 0)] IN
       proc' = [proc EXCEPT ![g] = Returned(p, "ok", "", found)]
  /\ UNCHANGED <<heap, brokerListInstance, now, fetchedAt, hist, sessVars>>

\* func init() { brokerList = &brokers{} }
InitBrokers ==
  /\ heap = << NewCache(FALSE, FALSE) >>
  /\ fetchedAt = << -1 >>
  /\ brokerListInstance = 1
  /\ proc = [g \in Goroutines |-> [IdleProc EXCEPT !.handle = 1]]
  /\ now = 0
  /\ hist = NoHist
  /\ tc = NoSession
  /\ pc = "init"
  /\ call = NoCall
  /\ net = NetUp
  /\ proxy = FALSE

NextBrokers ==
  \/ \E g \in Goroutines :
       \/ brokers_Init(g)
       \/ brokers_Init_body(g)
       \/ RefreshBrokers(g)
       \/ FetchBrokers(g)
       \/ FetchBrokers_Lock(g)
       \/ FetchBrokers_api(g)
       \/ GetBrokerList(g)
       \/ GetBrokerList_body(g)
       \/ brokers_GetBroker(g)
       \/ brokers_GetBroker_body(g)
       \/ brokers_SearchBrokerList(g)
       \/ brokers_Search_nil(g)
       \/ brokers_Search_len(g)
       \/ brokers_Search_range(g)
  \/ Tick

SpecBrokers == InitBrokers /\ [][NextBrokers]_vars


(***************************************************************************)
(* Broker validation and selection (broker.go).  The functions run on the   *)
(* caller's goroutine; each is an operator from the session t, the snapshot *)
(* of the broker cache and the environment to what the function returns and *)
(* the session it leaves.                                                   *)
(***************************************************************************)
\* what a function of the session returns: kind is "ok", "err", "panic" (the goroutine
\* panics) or "hang" (it never returns); n counts the API calls and cache lookups made
NoCount == [lookup |-> 0, ca |-> 0, bundle |-> 0]
Res(kind, err, t, n) == [kind |-> kind, err |-> err, tc |-> t, n |-> n]

\* func (tc) brokerSupportsCheckType(checkType, details)
brokerSupportsCheckType(checkType, detail) ==
  /\ checkType # << >>
  /\ \E k \in 1..Len(detail.Modules) : <<detail.Modules[k]>> = BaseType(checkType)

\* variant of retries with one more dial
retriesPlusOne == 5 + 1

\* isValidBroker: retries := 5
retries == 5

\* isValidBroker: the port of an instance (ExternalPort, Port, "43191")
brokerPort(detail) ==
  IF detail.ExternalPort # 0 THEN detail.ExternalPort
  ELSE IF detail.Port # 0 THEN detail.Port ELSE 43191

\* isValidBroker: brokerHost after an instance is looked at; prev is the value the
\* variable, declared outside the loop, holds from the instances before
brokerHost(detail, prev) ==
  IF detail.ExternalHost # NoStr THEN detail.ExternalHost
  ELSE IF detail.IP # NoStr THEN detail.IP ELSE prev

\* isValidBroker: the loop over broker.Details from instance k on; dials lists, per
\* instance probed, the target and the number of dials made
RECURSIVE instanceLoop(_, _, _, _, _, _, _)
instanceLoop(details, k, prev, checkType, nt, px, dials) ==
  IF k > Len(details)
  THEN [valid |-> FALSE, err |-> "no valid broker instances found", dials |-> dials]
  ELSE
    LET d == details[k]
        host == brokerHost(d, prev)
        port == IF host \in {"trap.noit.circonus.net", "api.circonus.net"}
                THEN 443 ELSE brokerPort(d)
        fails == IF host \in DOMAIN nt THEN nt[host] ELSE retries
    IN
    IF d.Status # statusActive
    THEN instanceLoop(details, k + 1, prev, checkType, nt, px, dials)
    ELSE IF ~brokerSupportsCheckType(checkType, d)
    THEN instanceLoop(details, k + 1, prev, checkType, nt, px, dials)
    ELSE IF host = ""
    THEN instanceLoop(details, k + 1, host, checkType, nt, px, dials)
    ELSE IF ContainsHttptrap(checkType) /\ px
    THEN [valid |-> TRUE, err |-> "", dials |-> dials]
    ELSE IF fails < retries
    THEN [valid |-> TRUE, err |-> "",
          dials |-> Append(dials, [host |-> host, port |-> port, cn |-> d.CN, n |-> fails + 1])]
    ELSE instanceLoop(details, k + 1, host, checkType, nt, px,
                      Append(dials, [host |-> host, port |-> port, cn |-> d.CN, n |-> retries]))

\* func (tc) isValidBroker(broker, checkType) on a broker that is not nil
isValidBrokerOn(broker, checkType, nt, px) ==
  IF broker.Type \notin {circonusType, enterpriseType}
  THEN [valid |-> FALSE, err |-> "broker has unknown type", dials |-> << >>]
  ELSE IF Len(broker.Details) = 0
  THEN [valid |-> FALSE, err |-> "broker invalid, no instance details", dials |-> << >>]
  ELSE instanceLoop(broker.Details, 1, "", checkType, nt, px, << >>)

\* func (tc) isValidBroker(broker, checkType); cid names the broker, NoStr is nil
isValidBroker(cid, checkType, nt, px) ==
  IF cid = NoStr
  THEN [valid |-> FALSE, err |-> "invalid state, broker (nil)", dials |-> << >>]
  ELSE isValidBrokerOn(BrokerDB[cid], checkType, nt, px)

\* brokerList.GetBroker(cid) as fetchBroker calls it, on the snapshot of the cache
cacheGetBroker(snapshot, cid) ==
  IF cid = "" THEN [kind |-> "err", err |-> "invalid cid (empty)", val |-> << >>]
  ELSE IF snapshot.nil
  THEN [kind |-> "err", err |-> "invalid state, broker list is nil", val |-> << >>]
  ELSE IF Len(snapshot.items) = 0
  THEN [kind |-> "hang", err |-> "", val |-> << >>]
  ELSE ScanForCID(snapshot.items, cid)

\* fetchBroker, from the answer got of brokerList.GetBroker(cid) on
fetchBrokerGot(t, got, cid, checkType, nt, px, n) ==
  IF got.kind = "hang" THEN Res("hang", "", t, n)
  ELSE IF got.kind = "err" THEN Res("err", "retrieving broker: " \o got.err, t, n)
  ELSE IF ~isValidBroker(cid, checkType, nt, px).valid THEN
    \* the message is formatted from tc.broker.Name and tc.checkConfig.Brokers[0]
    IF t.broker = NoStr \/ t.checkConfig.nil \/ Len(t.checkConfig.Brokers) = 0
    THEN Res("panic", "nil pointer dereference", t, n)
    ELSE Res("err", "is an invalid broker for check type", t, n)
  ELSE Res("ok", "", [t EXCEPT !.broker = cid], n)

\* func (tc) fetchBroker(cid, checkType)
fetchBroker(t, snap, cid, checkType, nt, px) ==
  IF cid = "" THEN Res("err", "invalid broker cid (empty)", t, NoCount)
  ELSE IF checkType = << >> THEN Res("err", "invalid check type (empty)", t, NoCount)
  ELSE fetchBrokerGot(t, cacheGetBroker(snap, cid), cid, checkType, nt, px,
                      [NoCount EXCEPT !.lookup = 1])

\* getBroker: the candidate list of the automatic path
candidateList(t, snapshot) ==
  IF Len(t.brokerSelectTags) > 0 THEN
    IF snapshot.nil
    THEN [kind |-> "err", err |-> "search brokers: invalid state, broker list is nil", val |-> << >>]
    ELSE IF Len(snapshot.items) = 0
    THEN [kind |-> "err", err |-> "search brokers: invalid state, empty broker list", val |-> << >>]
    ELSE [kind |-> "ok", err |-> "", val |-> SearchResult(snapshot.items, t.brokerSelectTags)]
  ELSE
    LET r == GetBrokerListResult(snapshot) IN
    IF r.kind = "err" THEN [r EXCEPT !.err = "fetch brokers: " \o r.err] ELSE r

\* variant of validBrokers that keeps every candidate, validated or not
allCandidates(list, checkType, nt, px) == { list[k] : k \in 1..Len(list) }

\* getBroker: the keys of validBrokers after the loop over the list
validBrokers(list, checkType, nt, px) ==
  { list[k] : k \in { j \in 1..Len(list) : isValidBroker(list[j], checkType, nt, px).valid } }

\* variant of eliminateNonEnterprise that deletes nothing
keepAllValid(valid) == valid

\* getBroker: if haveEnterprise, the non-enterprise brokers are deleted
eliminateNonEnterprise(valid) ==
  IF \E c \in valid : BrokerDB[c].Type = enterpriseType
  THEN { c \in valid : BrokerDB[c].Type = enterpriseType }
  ELSE valid

\* getBroker: the random choice among the valid brokers that remain; draw is the
\* broker the random index falls on (the order of the map keys is unspecified, so it
\* is any of them)
selectBroker(t, remaining, draw, n) ==
  IF remaining = {} THEN Res("err", "found broker(s), zero are valid", t, n)
  ELSE IF draw \in remaining THEN Res("ok", "", [t EXCEPT !.broker = draw], n)
  ELSE Res("ok", "", [t EXCEPT !.broker = CHOOSE c \in remaining : TRUE], n)

\* getBroker: the automatic path, from the candidate list cand on
selectFrom(t, cand, checkType, nt, px, draw, n) ==
  IF cand.kind = "err" THEN Res("err", cand.err, t, n)
  ELSE IF Len(cand.val) = 0 THEN Res("err", "zero brokers found", t, n)
  ELSE selectBroker(t,
                    eliminateNonEnterprise(validBrokers(cand.val, checkType, nt, px)), draw, n)

\* func (tc) getBroker(checkType)
getBroker(t, snap, checkType, nt, px, draw) ==
  IF ~t.checkConfig.nil /\ Len(t.checkConfig.Brokers) > 0
  THEN fetchBroker(t, snap, t.checkConfig.Brokers[1], checkType, nt, px)
  ELSE selectFrom(t, candidateList(t, snap), checkType, nt, px, draw,
                  [NoCount EXCEPT !.lookup = 1])


(***************************************************************************)
(* TLS trust set-up (tls.go) and the check bundle (check.go).               *)
(***************************************************************************)
\* func (tc) isPublicBroker()
isPublicBroker(t) ==
  IF t.checkBundle.nil
  THEN [err |-> "invalid state, check bundle not initialized", public |-> FALSE]
  ELSE IF t.submissionURL = NoURL
  THEN [err |-> "invalid state, no submission url", public |-> FALSE]
  ELSE IF t.usingPublicCA THEN [err |-> "", public |-> FALSE]
  ELSE [err |-> "", public |-> ContainsPublicName(t.submissionURL)]

\* variant of matchingCNs that does not look at the status of an instance
matchingCNsAnyStatus(details, host) ==
  LET hit(d) == d.IP = host \/ d.ExternalHost = host
      hits == SelectSeq(details, hit)
  IN  [k \in 1..Len(hits) |-> hits[k].CN]

\* getBrokerCNList: the CNs of the active instances whose IP or external host is host
matchingCNs(details, host) ==
  LET hit(d) == d.Status = statusActive /\ (d.IP = host \/ d.ExternalHost = host)
      hits == SelectSeq(details, hit)
  IN  [k \in 1..Len(hits) |-> hits[k].CN]

\* getBrokerCNList: if cn == "" { cn = detail.CN }, over the matching instances
RECURSIVE firstCN(_)
firstCN(cns) ==
  IF Len(cns) = 0 THEN ""
  ELSE IF cns[1] # "" THEN cns[1] ELSE firstCN(Tail(cns))

\* strings.Join(elems, sep)
RECURSIVE Join(_, _)
Join(elems, sep) ==
  IF Len(elems) = 0 THEN ""
  ELSE IF Len(elems) = 1 THEN elems[1]
  ELSE elems[1] \o sep \o Join(Tail(elems), sep)

\* func (tc) getBrokerCNList(): the host is that of checkBundle.Config[submission_url]
getBrokerCNList(t) ==
  IF t.broker = NoStr
  THEN [err |-> "invalid state, broker is nil", cn |-> "", cnList |-> ""]
  ELSE IF t.checkBundle.nil
  THEN [err |-> "invalid state, check bundle is nil", cn |-> "", cnList |-> ""]
  ELSE IF ~IsIP(t.checkBundle.url.host)
  THEN [err |-> "", cn |-> t.checkBundle.url.host, cnList |-> ""]
  ELSE IF Len(matchingCNs(BrokerDB[t.broker].Details, t.checkBundle.url.host)) = 0
  THEN [err |-> "unable to match URL host to broker instance", cn |-> "", cnList |-> ""]
  ELSE [err |-> "",
        cn |-> firstCN(matchingCNs(BrokerDB[t.broker].Details, t.checkBundle.url.host)),
        cnList |-> Join(matchingCNs(BrokerDB[t.broker].Details, t.checkBundle.url.host), ",")]

\* func (tc) fetchCert(), and AppendCertsFromPEM on what it returns; ca is what
\* client.Get("/pki/ca.crt") answers
fetchCert(ca) ==
  CASE ca = "error" -> "fetch broker ca cert: fetch broker CA cert from API"
    [] ca = "not json" -> "fetch broker ca cert: json unmarshal cert"
    [] ca = "no contents" -> "fetch broker ca cert: unable to find ca cert contents"
    [] ca = "not pem" -> "unable to append cert to pool"
    [] OTHER -> ""

\* setBrokerTLSConfig: if tc.broker == nil { ... fetchBroker(...) }
resolveBroker(t, snap, nt, px) ==
  IF t.broker # NoStr THEN Res("ok", "", t, NoCount)
  ELSE IF Len(t.checkBundle.Brokers) = 0
  THEN Res("err", "invalid check bundle, 0 brokers", t, NoCount)
  ELSE fetchBroker(t, snap, t.checkBundle.Brokers[1], t.checkBundle.Type, nt, px)

\* setBrokerTLSConfig: the CA certificate and the tls.Config, given the CN list cl
pinTLSConfig(fb, cl, ca) ==
  IF cl.err # "" THEN Res("err", "broker cn list: " \o cl.err, fb.tc, fb.n)
  ELSE IF fetchCert(ca) # "" THEN Res("err", fetchCert(ca), fb.tc, [fb.n EXCEPT !.ca = 1])
  ELSE Res("ok", "", [fb.tc EXCEPT !.tlsConfig = PinnedTLS(cl.cn, cl.cnList)],
           [fb.n EXCEPT !.ca = 1])

\* setBrokerTLSConfig, from the broker look-up fb on
pinBroker(fb, ca) ==
  IF fb.kind # "ok" THEN fb ELSE pinTLSConfig(fb, getBrokerCNList(fb.tc), ca)

\* func (tc) setBrokerTLSConfig()
setBrokerTLSConfig(t, snap, nt, px, ca) ==
  IF ~t.tlsConfig.nil THEN Res("ok", "", t, NoCount)
  ELSE IF t.submissionURL.scheme = "http" THEN Res("ok", "", t, NoCount)
  ELSE IF t.custTLSConfig THEN Res("ok", "", [t EXCEPT !.tlsConfig = [NilTLS EXCEPT !.nil = FALSE]], NoCount)
  ELSE IF isPublicBroker(t).err # "" THEN Res("err", isPublicBroker(t).err, t, NoCount)
  ELSE IF isPublicBroker(t).public THEN Res("ok", "", t, NoCount)
  ELSE pinBroker(resolveBroker(t, snap, nt, px), ca)

\* the answers of client.Get("/pki/ca.crt") that setBrokerTLSConfig can use on session t
CertAnswers(t) ==
  IF t.tlsConfig.nil /\ t.submissionURL.scheme # "http" /\ ~t.custTLSConfig
  THEN CertResults ELSE {"pem"}


\* one call of client.FetchCheckBundle is added to the count of r
WithBundleFetch(r) == [r EXCEPT !.n = [@ EXCEPT !.bundle = 1]]

\* variant of refreshCheck that forces the refresh with clearTLSConfig, which
\* drops the caller's TLS configuration as well
refreshCheckClearTLS(t, snap, nt, px, fetched, ca) ==
  IF t.custSubmissionURL # NoURL
  THEN Res("not refreshed", "", t, NoCount)
  ELSE IF t.checkBundle.nil THEN Res("err", "invalid state check bundle nil", t, NoCount)
  ELSE IF ~fetched.ok
  THEN Res("err", "fetching check bundle", t, [NoCount EXCEPT !.bundle = 1])
  ELSE IF ~fetched.bundle.hasURL
  THEN Res("err", "no submission url found in check bundle config",
           [t EXCEPT !.checkBundle = fetched.bundle], [NoCount EXCEPT !.bundle = 1])
  ELSE WithBundleFetch(
         setBrokerTLSConfig([t EXCEPT !.checkBundle = fetched.bundle,
                                      !.submissionURL = fetched.bundle.url,
                                      !.tlsConfig = NilTLS, !.broker = NoStr,
                                      !.custTLSConfig = FALSE],
                            snap, nt, px, ca))

\* func (tc) refreshCheck(); fetched is what client.FetchCheckBundle answers.
\* kind "not refreshed": it returns false, nil
refreshCheck(t, snap, nt, px, fetched, ca) ==
  IF t.custSubmissionURL # NoURL
  THEN Res("not refreshed", "", t, NoCount)
  ELSE IF t.checkBundle.nil THEN Res("err", "invalid state check bundle nil", t, NoCount)
  ELSE IF ~fetched.ok
  THEN Res("err", "fetching check bundle", t, [NoCount EXCEPT !.bundle = 1])
  ELSE IF ~fetched.bundle.hasURL
  THEN Res("err", "no submission url found in check bundle config",
           [t EXCEPT !.checkBundle = fetched.bundle], [NoCount EXCEPT !.bundle = 1])
  ELSE WithBundleFetch(
         setBrokerTLSConfig([t EXCEPT !.checkBundle = fetched.bundle,
                                      !.submissionURL = fetched.bundle.url,
                                      !.tlsConfig = NilTLS, !.broker = NoStr],
                            snap, nt, px, ca))

\* func (tc) fetchCheckBundle(); fetched is what client.FetchCheckBundle answers
fetchCheckBundle(t, fetched) ==
  LET n == [NoCount EXCEPT !.bundle = 1] IN
  IF ~fetched.ok THEN Res("err", "retrieving check bundle", t, n)
  ELSE IF fetched.bundle.Status # statusActive
  THEN Res("err", "invalid check bundle, not active", t, n)
  ELSE IF ~fetched.bundle.hasURL
  THEN Res("err", "invalid check bundle no 'submission_url' in config", t, n)
  ELSE Res("ok", "", [t EXCEPT !.checkBundle = fetched.bundle], n)

\* func (tc) applyCheckBundleDefaults(cfg): the fields the model keeps
applyCheckBundleDefaults(cfg) ==
  [cfg EXCEPT !.Type = IF @ = << >> THEN <<"httptrap">> ELSE @,
              !.Status = IF @ = "" THEN statusActive ELSE @]

\* variant of findCheckBundle that adopts the last bundle of the exact type when
\* several have it
findCheckBundleLastTyped(cfg, found) ==
  LET typed == SelectSeq(found.list, LAMBDA b : b.Type = cfg.Type) IN
  IF ~found.ok THEN [err |-> "searching for check bundle", found |-> FALSE, bundle |-> NilBundle]
  ELSE IF Len(found.list) = 1 THEN [err |-> "", found |-> TRUE, bundle |-> found.list[1]]
  ELSE IF Len(found.list) > 1 THEN
    IF Len(typed) = 0
    THEN [err |-> "multiple bundles found, none are type", found |-> FALSE, bundle |-> NilBundle]
    ELSE [err |-> "", found |-> TRUE, bundle |-> typed[Len(typed)]]
  ELSE [err |-> "", found |-> FALSE, bundle |-> NilBundle]

\* func (tc) findCheckBundle(cfg); found is what client.SearchCheckBundles answers
findCheckBundle(cfg, found) ==
  LET typed == SelectSeq(found.list, LAMBDA b : b.Type = cfg.Type) IN
  IF ~found.ok THEN [err |-> "searching for check bundle", found |-> FALSE, bundle |-> NilBundle]
  ELSE IF Len(found.list) = 1 THEN [err |-> "", found |-> TRUE, bundle |-> found.list[1]]
  ELSE IF Len(found.list) > 1 THEN
    IF Len(typed) = 0
    THEN [err |-> "multiple bundles found, none are type", found |-> FALSE, bundle |-> NilBundle]
    ELSE IF Len(typed) = 1 THEN [err |-> "", found |-> TRUE, bundle |-> typed[1]]
    ELSE [err |-> "multiple check bundles found", found |-> FALSE, bundle |-> NilBundle]
  ELSE [err |-> "", found |-> FALSE, bundle |-> NilBundle]

\* createCheckBundle: client.CreateCheckBundle(cfg) and what the API makes of cfg;
\* cfg is tc.checkConfig itself when the caller gave one
createWith(t, cfg, created, n) ==
  IF ~created
  THEN Res("err", "create check bundle",
           IF t.checkConfig.nil THEN t ELSE [t EXCEPT !.checkConfig = cfg], n)
  ELSE Res("ok", "",
           [t EXCEPT !.checkConfig = IF @.nil THEN @ ELSE cfg,
                     !.checkBundle = Bundle(BundleCID, cfg.Brokers, cfg.Type, TRUE,
                                            BrokerURL(cfg.Brokers[1]), statusActive, <<"u1">>)],
           n)

\* createCheckBundle, from the broker selection sel on
createOn(sel, cfg, created) ==
  IF sel.kind # "ok" THEN sel
  ELSE createWith(sel.tc, [cfg EXCEPT !.Brokers = <<sel.tc.broker>>], created, sel.n)

\* func (tc) createCheckBundle(cfg); created: client.CreateCheckBundle succeeds
createCheckBundle(t, cfg, snap, nt, px, draw, created) ==
  IF Len(cfg.Brokers) = 0
  THEN createOn(getBroker(t, snap, cfg.Type, nt, px, draw), cfg, created)
  ELSE createWith(t, cfg, created, NoCount)

\* initCheckBundle, from the result f of findCheckBundle on
initFound(t, cfg, f, snap, nt, px, e) ==
  IF f.err # "" THEN Res("err", f.err, t, NoCount)
  ELSE IF f.found THEN Res("ok", "", [t EXCEPT !.checkBundle = f.bundle], NoCount)
  ELSE createCheckBundle(t, cfg, snap, nt, px, e.draw, e.created)

\* initCheckBundle, with the defaults applied to cfg
initWithDefaults(t, cfg, snap, nt, px, e) ==
  initFound(IF t.checkConfig.nil THEN t ELSE [t EXCEPT !.checkConfig = cfg], cfg,
            findCheckBundle(cfg, e.found), snap, nt, px, e)

\* func (tc) initCheckBundle(cfg)
initCheckBundle(t, cfg, snap, nt, px, e) ==
  initWithDefaults(t, applyCheckBundleDefaults(cfg), snap, nt, px, e)

\* func (tc) initializeCheck()
initializeCheck(t, snap, nt, px, e) ==
  IF t.checkConfig.nil
  THEN initCheckBundle(t, Bundle("", << >>, << >>, FALSE, NoURL, "", << >>), snap, nt, px, e)
  ELSE IF t.checkConfig.CID # "" THEN fetchCheckBundle(t, e.fetched)
  ELSE initCheckBundle(t, t.checkConfig, snap, nt, px, e)


(***************************************************************************)
(* The session (trapcheck.go): New.  The application holds one session at a *)
(* time and calls it from one goroutine.  The functions of broker.go reach  *)
(* the broker cache through the package; they see the snapshot of the cache *)
(* struct Init has stored, a nil snapshot while there is none.              *)
(***************************************************************************)
snapshot == IF brokerListInstance = 0 THEN NilList ELSE heap[brokerListInstance].brokers

\* a function of the session that hangs does so in GetBroker, holding the cache mutex
CacheAfter(kind) ==
  IF kind = "hang" THEN [heap EXCEPT ![brokerListInstance].mu = "main"] ELSE heap

Out(kind, err) == [NoOutcome EXCEPT !.kind = kind, !.err = err]

\* where the goroutine is after a function of the session has not returned
Stopped(kind) == IF kind = "panic" THEN "crashed" ELSE "hung"

Count(c, n) ==
  [c EXCEPT !.nLookup = @ + n.lookup, !.nCA = @ + n.ca, !.nFetchBundle = @ + n.bundle]

defaultBrokerMaxResponseTime == "500ms"
defaultSubmissionTimeout == "10s"

\* New: tc := &TrapCheck{...} and the fields set from cfg
newTrapCheck(cfg) ==
  [NoSession EXCEPT
     !.custSubmissionURL = cfg.SubmissionURL,
     !.brokerSelectTags = cfg.BrokerSelectTags,
     !.newCheckBundle = TRUE,
     !.custTLSConfig = cfg.SubmitTLSConfig /\ ~cfg.PublicCA,
     !.checkConfig = cfg.CheckConfig,
     !.usingPublicCA = cfg.PublicCA,
     !.traceMetrics = IF cfg.TraceMetrics # "" /\ TraceDirOK(cfg.TraceMetrics)
                      THEN cfg.TraceMetrics ELSE "",
     !.submissionURL = cfg.SubmissionURL]

\* New: the submission timeout
New_timeout(cfg, r) ==
  IF ~ParseDurationOK(IF cfg.SubmissionTimeout = "" THEN defaultSubmissionTimeout
                      ELSE cfg.SubmissionTimeout)
  THEN Res("err", "parsing submission timeout", r.tc, r.n)
  ELSE r

\* New: the submission URL of the check bundle that initializeCheck (result ic) left
New_checked(cfg, ic) ==
  IF ic.kind # "ok" THEN ic
  ELSE IF ~ic.tc.checkBundle.hasURL
  THEN Res("err", "no submission url found in check bundle config", ic.tc, ic.n)
  ELSE New_timeout(cfg, Res("ok", "", [ic.tc EXCEPT !.submissionURL = ic.tc.checkBundle.url],
                            ic.n))

\* New: the check bundle and the submission URL of session t
New_check(cfg, t, snap, nt, px, e) ==
  IF t.submissionURL = NoURL
  THEN New_checked(cfg, initializeCheck(t, snap, nt, px, e))
  ELSE New_timeout(cfg, Res("ok", "", [t EXCEPT !.checkBundle = t.checkConfig], NoCount))

\* func New(cfg), up to the call of initBrokerList
New_enter(cfg, snap, nt, px, e) ==
  IF cfg.isNil THEN Res("err", "invalid configuration  (nil)", NoSession, NoCount)
  ELSE IF ~cfg.Client THEN Res("err", "invalid configuration (nil api client)", NoSession, NoCount)
  ELSE IF ~ParseDurationOK(IF cfg.BrokerMaxResponseTime = "" THEN defaultBrokerMaxResponseTime
                           ELSE cfg.BrokerMaxResponseTime)
  THEN Res("err", "parsing broker max response time", NoSession, NoCount)
  ELSE IF /\ ~cfg.CheckConfig.nil
          /\ cfg.CheckConfig.Type # << >>
          /\ ~HasPrefixHttptrap(cfg.CheckConfig.Type)
  THEN Res("err", "check type must be httptrap variant", NoSession, NoCount)
  ELSE New_check(cfg, newTrapCheck(cfg), snap, nt, px, e)

\* the answers of the API that New_enter can use for cfg
EnterAnswers(cfg) ==
  LET byCID == ~cfg.isNil /\ cfg.SubmissionURL = NoURL /\ cfg.CheckConfig.CID # ""
      search == ~cfg.isNil /\ cfg.SubmissionURL = NoURL /\ cfg.CheckConfig.CID = ""
  IN
  [fetched : IF byCID THEN BundleResults(ApiBundles) ELSE { [ok |-> FALSE, bundle |-> NilBundle] },
   found : IF search THEN SearchResults ELSE { [ok |-> FALSE, list |-> << >>] },
   created : IF search THEN BOOLEAN ELSE {TRUE},
   draw : IF search THEN BrokerCIDs ELSE {"/broker/1"},
   ca : {"pem"}]

\* NewFromCheckBundle: tc := &TrapCheck{...} and the fields set from cfg
newTrapCheckFromBundle(cfg, bundle) ==
  [NoSession EXCEPT
     !.custSubmissionURL = cfg.SubmissionURL,
     !.brokerSelectTags = cfg.BrokerSelectTags,
     !.checkBundle = bundle,
     !.custTLSConfig = cfg.SubmitTLSConfig,
     !.checkConfig = cfg.CheckConfig,
     !.traceMetrics = IF cfg.TraceMetrics # "" /\ TraceDirOK(cfg.TraceMetrics)
                      THEN cfg.TraceMetrics ELSE ""]

\* func NewFromCheckBundle(cfg, bundle), up to the call of initBrokerList
NewFromCheckBundle_enter(cfg, bundle) ==
  IF cfg.isNil THEN Res("err", "invalid configuration  (nil)", NoSession, NoCount)
  ELSE IF ~cfg.Client THEN Res("err", "invalid configuration (nil api client)", NoSession, NoCount)
  ELSE IF bundle.nil THEN Res("err", "invalid check bundle (nil)", NoSession, NoCount)
  ELSE IF ~ParseDurationOK(IF cfg.BrokerMaxResponseTime = "" THEN defaultBrokerMaxResponseTime
                           ELSE cfg.BrokerMaxResponseTime)
  THEN Res("err", "parsing broker max response time", NoSession, NoCount)
  ELSE IF bundle.Type # << >> /\ ~HasPrefixHttptrap(bundle.Type)
  THEN Res("err", "check type must be httptrap variant", NoSession, NoCount)
  ELSE IF ~bundle.hasURL
  THEN Res("err", "invalid check bundle, no submission url found", NoSession, NoCount)
  ELSE New_timeout(cfg, Res("ok", "", [newTrapCheckFromBundle(cfg, bundle) EXCEPT
                                         !.submissionURL = bundle.url], NoCount))

\* NewFromCheckBundle is called by an application that holds no session
NewFromCheckBundle_call ==
  /\ pc = "init"
  /\ \E cfg \in FromBundleConfigs, bundle \in UserBundles :
       \E r \in { NewFromCheckBundle_enter(cfg, bundle) } :
         /\ tc' = IF r.kind = "ok" THEN r.tc ELSE NoSession
         /\ pc' = IF r.kind = "ok" THEN "New_initBrokerList" ELSE "init"
         /\ call' = [NoCall EXCEPT !.op = "NewFromCheckBundle",
                                   !.ret = IF r.kind = "ok" THEN @ ELSE Out(r.kind, r.err)]
  /\ UNCHANGED <<cacheVars, net, proxy>>

\* New is called by an application that holds no session
New_call ==
  /\ pc = "init"
  /\ \E cfg \in Configs : \E e \in EnterAnswers(cfg) :
       \E r \in { New_enter(cfg, snapshot, net, proxy, e) } :
         /\ tc' = IF r.kind = "ok" THEN r.tc ELSE NoSession
         /\ pc' = IF r.kind = "ok" THEN "New_initBrokerList"
                  ELSE IF r.kind = "err" THEN "init" ELSE Stopped(r.kind)
         /\ call' = [Count([NoCall EXCEPT !.op = "New"], r.n) EXCEPT
                       !.ret = IF r.kind = "ok" THEN @ ELSE Out(r.kind, r.err)]
         /\ heap' = CacheAfter(r.kind)
  /\ UNCHANGED <<brokerListInstance, proc, now, fetchedAt, hist, net, proxy>>

\* func (tc) initBrokerList(): brokerList.Init(tc.client, tc.Log), GetInstance()
New_initBrokerList ==
  /\ pc = "New_initBrokerList"
  /\ IF brokerListInstance # 0 THEN
       /\ tc' = [tc EXCEPT !.brokerList = brokerListInstance]
       /\ pc' = "New_setBrokerTLSConfig"
       /\ UNCHANGED <<heap, brokerListInstance, fetchedAt, call>>
     ELSE
       \E r \in ApiResults(ConcurrentApiLists) :
         /\ heap' = Append(heap, [NewCache(TRUE, TRUE) EXCEPT
                                    !.brokers = IF r.ok THEN Ptr(r.list) ELSE NilList])
         /\ fetchedAt' = Append(fetchedAt, IF r.ok THEN now ELSE -1)
         /\ brokerListInstance' = Len(heap) + 1
         /\ IF r.ok THEN
              /\ tc' = [tc EXCEPT !.brokerList = Len(heap) + 1]
              /\ pc' = "New_setBrokerTLSConfig"
              /\ UNCHANGED call
            ELSE
              /\ tc' = NoSession
              /\ pc' = "init"
              /\ call' = [call EXCEPT !.ret = Out("err", "initializing broker list")]
  /\ UNCHANGED <<proc, now, hist, net, proxy>>

\* New: tc.setBrokerTLSConfig(), return tc
New_setBrokerTLSConfig ==
  /\ pc = "New_setBrokerTLSConfig"
  /\ \E ca \in CertAnswers(tc) :
       \E r \in { setBrokerTLSConfig(tc, snapshot, net, proxy, ca) } :
         /\ tc' = IF r.kind = "ok" THEN [r.tc EXCEPT !.live = TRUE] ELSE NoSession
         /\ pc' = IF r.kind = "ok" THEN "idle"
                  ELSE IF r.kind = "err" THEN "init" ELSE Stopped(r.kind)
         /\ call' = [Count(call, r.n) EXCEPT !.ret = Out(r.kind, r.err)]
         /\ heap' = CacheAfter(r.kind)
  /\ UNCHANGED <<brokerListInstance, proc, now, fetchedAt, hist, net, proxy>>

(***************************************************************************)
(* The session: SendMetrics and submit (submit.go).  The metrics are named  *)
(* by their length n; their bytes are Payload[n].                           *)
(***************************************************************************)
\* variant of EmptyPayload that takes no payload for empty
NeverEmpty(n) == FALSE

\* metrics.Len() == 0
EmptyPayload(n) == Len(Payload[n]) = 0

\* variant of ShouldCompress that compresses from the threshold on
CompressFromThreshold(metricLen) == metricLen >= compressionThreshold

\* metricLen > compressionThreshold
ShouldCompress(metricLen) == metricLen > compressionThreshold

\* submit: subData, as the compression block fills it
subData(p) ==
  IF ShouldCompress(Len(p))
  THEN GzipOutput(p)
  ELSE p

\* submit: the request, with the headers Content-Length and Content-Encoding
NewRequest(url, p) ==
  [body |-> subData(p), contentLength |-> Len(subData(p)),
   contentEncoding |-> IF ShouldCompress(Len(p)) THEN "gzip" ELSE "",
   url |-> url, compressed |-> ShouldCompress(Len(p))]

\* variant of RetryMax that allows one retry more
RetryMaxPlusOne == 7 + 1

\* retryClient.RetryMax = 7: the retries the client makes after the first attempt
RetryMax == 7

\* what one attempt of the HTTP client ends with: a transport error, or a response
Response(err, status, body) == [err |-> err, status |-> status, body |-> body]

Responses(t) ==
  { Response("dial", 0, ""), Response("", 500, ""), Response("", 404, ""),
    Response("", 406, ""), Response("", 200, "{}"), Response("", 200, "{error}"),
    Response("", 200, "not json") }
  \cup (IF t.submissionURL.scheme = "https"
        THEN { Response("x509: certificate signed by unknown authority", 0, "") } ELSE {})
  \cup (IF ~t.tlsConfig.nil THEN { Response("x509: name mismatch", 0, "") } ELSE {})

\* retryablehttp.ErrorPropagatedRetryPolicy: whether to retry, and its error
ErrorPropagatedRetryPolicy(resp) ==
  IF resp.err # "" THEN
    IF resp.err = "x509: certificate signed by unknown authority"
    THEN [retry |-> FALSE, err |-> resp.err]
    ELSE [retry |-> TRUE, err |-> ""]
  ELSE IF resp.status = 429 THEN [retry |-> TRUE, err |-> ""]
  ELSE IF resp.status = 0 \/ (resp.status >= 500 /\ resp.status # 501)
  THEN [retry |-> TRUE, err |-> "unexpected HTTP status"]
  ELSE [retry |-> FALSE, err |-> ""]

\* retryClient.CheckRetry as submit sets it: the policy's decision, and no error
CheckRetry(resp) == [retry |-> ErrorPropagatedRetryPolicy(resp).retry, err |-> ""]

\* json.Unmarshal(body, &result) on the bodies of the model: the Error field it
\* leaves in the TrapResult, or that the body does not parse
Unmarshal(body) ==
  IF body = "{}" THEN [ok |-> TRUE, Error |-> ""]
  ELSE IF body = "{error}" THEN [ok |-> TRUE, Error |-> "error"]
  ELSE [ok |-> FALSE, Error |-> ""]

\* variant of ClassifyFinal that leaves the Error field as the server sent it
ClassifyFinalAsSent(t, resp, dataLen) ==
  IF resp.status # 200
  THEN [Out("err", "non-200 - url") EXCEPT !.status = resp.status]
  ELSE IF ~Unmarshal(resp.body).ok
  THEN [Out("err", "parsing response") EXCEPT !.status = 200]
  ELSE IF t.checkBundle.nil \/ Len(t.checkBundle.CheckUUIDs) = 0
  THEN [Out("panic", "tc.checkBundle.CheckUUIDs[0]") EXCEPT !.status = 200]
  ELSE [Out("ok", "") EXCEPT !.status = 200, !.bytesSent = dataLen,
          !.checkUUID = t.checkBundle.CheckUUIDs[1],
          !.serverError = Unmarshal(resp.body).Error,
          !.resultError = Unmarshal(resp.body).Error]

\* submit: what it returns for a response that asks for no refresh
ClassifyFinal(t, resp, dataLen) ==
  IF resp.status # 200
  THEN [Out("err", "non-200 - url") EXCEPT !.status = resp.status]
  ELSE IF ~Unmarshal(resp.body).ok
  THEN [Out("err", "parsing response") EXCEPT !.status = 200]
  ELSE IF t.checkBundle.nil \/ Len(t.checkBundle.CheckUUIDs) = 0
  THEN [Out("panic", "tc.checkBundle.CheckUUIDs[0]") EXCEPT !.status = 200]
  ELSE [Out("ok", "") EXCEPT !.status = 200, !.bytesSent = dataLen,
          !.checkUUID = t.checkBundle.CheckUUIDs[1],
          !.serverError = Unmarshal(resp.body).Error,
          !.resultError = IF Unmarshal(resp.body).Error = "" THEN "none"
                          ELSE Unmarshal(resp.body).Error]

\* variant of Classify that asks for a refresh on every 404
ClassifyAny404(t, resp, dataLen) ==
  IF resp.status = 404
  THEN [Out("err", "404 - url") EXCEPT !.refresh = TRUE, !.status = 404]
  ELSE ClassifyFinal(t, resp, dataLen)

\* submit: what it returns for the response the retrying client hands back
Classify(t, resp, dataLen) ==
  IF resp.status = 404 /\ t.custSubmissionURL = NoURL
  THEN [Out("err", "404 - url") EXCEPT !.refresh = TRUE, !.status = 404]
  ELSE ClassifyFinal(t, resp, dataLen)

\* submit returns out to SendMetrics
SubmitReturns(c, out) ==
  /\ call' = [c EXCEPT !.first = IF c.nSubmit = 1 THEN out ELSE @,
                       !.second = IF c.nSubmit = 1 THEN @ ELSE out,
                       !.req = [@ EXCEPT !.body = << >>], !.attempt = 0, !.mismatch = FALSE,
                       !.ret = IF out.kind \in {"panic", "hang"} THEN out ELSE @]
  /\ pc' = IF out.kind \in {"panic", "hang"} THEN Stopped(out.kind) ELSE c.retpc

\* what can go wrong in the trace step of a submit with trace setting traceDir:
\* uuid.NewRandom, os.Create, fh.Write or fh.Close fails, or nothing does
TraceEnvs(traceDir) ==
  IF traceDir \in {"", "-"} THEN {"ok"} ELSE {"ok", "uuid", "create", "write", "close"}

\* submit: if traceDir := tc.traceMetrics; traceDir != "" { ... }; env is what fails.
\* did: what the step has done; err: the error submit returns from it ("": none);
\* submitUUID: the variable of that name, "n/a" until sid.String() is assigned
traceStep(traceDir, env) ==
  IF traceDir = "" THEN [did |-> "none", err |-> "", submitUUID |-> "n/a"]
  ELSE IF traceDir = "-" THEN [did |-> "logged", err |-> "", submitUUID |-> "n/a"]
  ELSE IF env = "uuid"
  THEN [did |-> "no submit id", err |-> "creating new submit ID", submitUUID |-> "n/a"]
  ELSE IF env = "create" THEN [did |-> "not created", err |-> "", submitUUID |-> "sid"]
  ELSE IF env = "write" THEN [did |-> "not written", err |-> "", submitUUID |-> "sid"]
  ELSE IF env = "close" THEN [did |-> "not closed", err |-> "", submitUUID |-> "sid"]
  ELSE [did |-> "written", err |-> "", submitUUID |-> "sid"]

\* func (tc) SendMetrics(ctx, metrics): the length check, then the call of submit
SendMetrics_call ==
  /\ pc = "idle"
  /\ \E n \in PayloadLengths :
     \E c \in { [NoCall EXCEPT !.op = "SendMetrics", !.metrics = n, !.metricLen = n,
                                !.entry = tc, !.retpc = "SendMetrics_refresh"] } :
       IF EmptyPayload(n) THEN
         /\ call' = [c EXCEPT !.ret = Out("err", "no metrics to submit")]
         /\ pc' = "idle"
       ELSE
         /\ call' = c
         /\ pc' = "submit"
  /\ UNCHANGED <<cacheVars, tc, net, proxy>>

\* func (tc) submit(ctx, metrics), up to the request it hands to the retrying client
submit_begin ==
  /\ pc = "submit"
  /\ \E ca \in CertAnswers(tc) :
     \E r \in { setBrokerTLSConfig(tc, snapshot, net, proxy, ca) } :
     \E c \in { Count([call EXCEPT !.nSubmit = @ + 1, !.attempt = 0, !.mismatch = FALSE], r.n) } :
       IF EmptyPayload(call.metrics) THEN
         /\ SubmitReturns([call EXCEPT !.nSubmit = @ + 1],
                          Out("err", "zero length data, no metrics to submit"))
         /\ UNCHANGED <<tc, heap>>
       ELSE IF r.kind = "err" THEN
         /\ SubmitReturns(c, Out("err", "unable to set TLS config: " \o r.err))
         /\ tc' = r.tc
         /\ UNCHANGED heap
       ELSE IF r.kind # "ok" THEN
         /\ SubmitReturns(c, Out(r.kind, r.err))
         /\ tc' = r.tc
         /\ heap' = CacheAfter(r.kind)
       ELSE
         \E env \in TraceEnvs(r.tc.traceMetrics) :
         \E tr \in { traceStep(r.tc.traceMetrics, env) } :
           IF tr.err # "" THEN
             /\ SubmitReturns([c EXCEPT !.trace = tr.did, !.submitUUID = tr.submitUUID],
                              Out("err", tr.err))
             /\ tc' = r.tc
             /\ UNCHANGED heap
           ELSE
             /\ call' = [c EXCEPT !.trace = tr.did, !.submitUUID = tr.submitUUID,
                                  !.req = NewRequest(r.tc.submissionURL, Payload[call.metrics])]
             /\ pc' = "http"
             /\ tc' = r.tc
             /\ UNCHANGED heap
  /\ UNCHANGED <<brokerListInstance, proc, now, fetchedAt, hist, net, proxy>>

\* retryClient.Do(req): one attempt, then CheckRetry; after the last one submit
\* classifies what the client returns
submit_attempt ==
  /\ pc = "http"
  /\ \E resp \in Responses(tc) :
     \E c \in { [call EXCEPT !.httpSent = TRUE,
                              !.mismatch = @ \/ resp.err = "x509: name mismatch"] },
        check \in { CheckRetry(resp) } :
       IF check.retry /\ RetryMax - call.attempt > 0 THEN
         /\ call' = [c EXCEPT !.attempt = @ + 1]
         /\ pc' = "http"
       ELSE IF resp.err = "" /\ check.err = "" /\ ~check.retry THEN
         \E out \in { Classify(tc, resp, call.req.contentLength) } :
           SubmitReturns(c, IF out.kind = "ok"
                            THEN [out EXCEPT !.submitUUID = call.submitUUID] ELSE out)
       ELSE
         SubmitReturns(c, Out("err", "making request: giving up after attempt(s)"))
  /\ UNCHANGED <<cacheVars, tc, net, proxy>>

\* SendMetrics: if refresh { refreshCheck(); ...; submit again } else return
SendMetrics_refresh ==
  /\ pc = "SendMetrics_refresh"
  /\ IF ~call.first.refresh THEN
       /\ call' = [call EXCEPT !.ret = call.first]
       /\ pc' = "idle"
       /\ UNCHANGED <<tc, heap>>
     ELSE
       \E fetched \in BundleResults(ApiBundles) :
       \E ca \in CertAnswers([tc EXCEPT !.submissionURL = fetched.bundle.url,
                                        !.tlsConfig = NilTLS]) :
       \E r \in { refreshCheck(tc, snapshot, net, proxy, fetched, ca) } :
       \E c \in { [Count(call, r.n) EXCEPT !.nRefresh = @ + 1, !.refreshed = r.kind] } :
         /\ tc' = r.tc
         /\ heap' = CacheAfter(r.kind)
         /\ IF r.kind = "ok" THEN
              /\ call' = [c EXCEPT !.retpc = "SendMetrics_return"]
              /\ pc' = "submit"
            ELSE IF r.kind = "err" THEN
              /\ call' = [c EXCEPT !.ret = Out("err", r.err)]
              /\ pc' = "idle"
            ELSE IF r.kind = "not refreshed" THEN
              /\ call' = [c EXCEPT !.ret = Out("err", "unable to refresh: " \o call.first.err)]
              /\ pc' = "idle"
            ELSE
              /\ call' = [c EXCEPT !.ret = Out(r.kind, r.err)]
              /\ pc' = Stopped(r.kind)
  /\ UNCHANGED <<brokerListInstance, proc, now, fetchedAt, hist, net, proxy>>

\* variant of SendMetrics_return that refreshes again when the second submit asks
SendMetrics_returnOrRefresh ==
  /\ pc = "SendMetrics_return"
  /\ call' = IF call.second.refresh
             THEN [call EXCEPT !.first = call.second] ELSE [call EXCEPT !.ret = call.second]
  /\ pc' = IF call.second.refresh THEN "SendMetrics_refresh" ELSE "idle"
  /\ UNCHANGED <<cacheVars, tc, net, proxy>>

\* SendMetrics: return result, submitErr -- after the second submit
SendMetrics_return ==
  /\ pc = "SendMetrics_return"
  /\ call' = [call EXCEPT !.ret = call.second]
  /\ pc' = "idle"
  /\ UNCHANGED <<cacheVars, tc, net, proxy>>

\* the application lets go of its session
Drop ==
  /\ pc = "idle"
  /\ tc' = NoSession
  /\ call' = NoCall
  /\ pc' = "init"
  /\ UNCHANGED <<cacheVars, net, proxy>>

InitSession ==
  /\ heap = << >>
  /\ fetchedAt = << >>
  /\ brokerListInstance = 0
  /\ proc = [g \in Goroutines |-> IdleProc]
  /\ now = 0
  /\ hist = NoHist
  /\ tc = NoSession
  /\ pc = "init"
  /\ call = NoCall
  /\ net \in { NetUp, [h \in ProbeHosts |-> IF h = "10.0.0.2" THEN 2 ELSE retries] }
  /\ proxy \in BOOLEAN

Next ==
  \/ New_call
  \/ NewFromCheckBundle_call
  \/ New_initBrokerList
  \/ New_setBrokerTLSConfig
  \/ SendMetrics_call
  \/ submit_begin
  \/ submit_attempt
  \/ SendMetrics_refresh
  \/ SendMetrics_return
  \/ Drop

Spec == InitSession /\ [][Next]_vars


(***************************************************************************)
(* Broker selection on its own: getBroker applied to a session under        *)
(* construction, over the lists the cache can hold and the states of the    *)
(* network.                                                                 *)
(***************************************************************************)
\* the states of the network: a host takes the first dial or none, and one
\* of them may take the third
SelectNets ==
  { f \in [ProbeHosts -> {0, 2, retries}] :
      /\ f["10.0.0.9"] = 0
      /\ \A h \in ProbeHosts \ {"10.0.0.2"} : f[h] # 2 }

\* createCheckBundle: tc.getBroker(cfg.Type), on a session without a configured broker
getBroker_call ==
  /\ pc = "select"
  /\ \E checkType \in { <<"httptrap">>, <<"httptrap", "cua">>, <<"json">>, << >> }, draw \in BrokerCIDs :
     \E r \in { getBroker(tc, snapshot, checkType, net, proxy, draw) } :
       /\ tc' = r.tc
       /\ call' = [Count([NoCall EXCEPT !.op = "getBroker", !.entry = tc,
                                        !.checkType = checkType], r.n)
                     EXCEPT !.ret = Out(r.kind, r.err)]
       /\ pc' = IF r.kind \in {"ok", "err"} THEN "selected" ELSE Stopped(r.kind)
       /\ heap' = CacheAfter(r.kind)
  /\ UNCHANGED <<brokerListInstance, proc, now, fetchedAt, hist, net, proxy>>

\* the cache is refreshed: tc.brokerList.FetchBrokers() succeeds with another list
Select_FetchBrokers ==
  /\ pc = "selected"
  /\ \E l \in ApiLists :
       /\ heap' = [heap EXCEPT ![brokerListInstance].brokers = Ptr(l)]
       /\ fetchedAt' = [fetchedAt EXCEPT ![brokerListInstance] = now]
  /\ tc' = call.entry
  /\ call' = NoCall
  /\ pc' = "select"
  /\ UNCHANGED <<brokerListInstance, proc, now, hist, net, proxy>>

InitSelect ==
  /\ \E b \in {NilList} \cup { Ptr(l) : l \in ApiLists } :
       heap = << [NewCache(TRUE, TRUE) EXCEPT !.brokers = b] >>
  /\ fetchedAt = << 0 >>
  /\ brokerListInstance = 1
  /\ proc = [g \in Goroutines |-> IdleProc]
  /\ now = 0
  /\ hist = NoHist
  /\ \E tags \in { << >>, <<"env:prod">>, <<"dc:west">> }, b \in {NoStr, "/broker/4"} :
       tc = [NoSession EXCEPT !.brokerSelectTags = tags, !.broker = b,
                              !.newCheckBundle = TRUE, !.brokerList = 1]
  /\ pc = "select"
  /\ call = NoCall
  /\ net \in SelectNets
  /\ proxy \in BOOLEAN

NextSelect ==
  \/ getBroker_call
  \/ Select_FetchBrokers

SpecSelect == InitSelect /\ [][NextSelect]_vars


(***************************************************************************)
(* The TLS set-up on its own: setBrokerTLSConfig on every session New and   *)
(* NewFromCheckBundle hand to it, called again on its own result as submit  *)
(* does, and the VerifyConnection callback of a pinned configuration on the *)
(* certificates a server may present.                                       *)
(***************************************************************************)
\* strings.Contains(s, substr)
Contains(s, substr) ==
  \E i \in 0..(Len(s) - Len(substr)) : SubSeq(s, i + 1, i + Len(substr)) = substr

\* the VerifyConnection closure of the pinned tls.Config cfg; chainOK: the peer's
\* chain verifies against the pool that holds the fetched CA certificate
VerifyConnection(cfg, commonName, chainOK) ==
  IF ~Contains(cfg.cnList, commonName) THEN Out("err", "x509: name mismatch")
  ELSE IF ~chainOK THEN Out("err", "peer cert verify")
  ELSE Out("ok", "")

\* tc.setBrokerTLSConfig() is called: by New or NewFromCheckBundle on the session
\* they built, then by submit on the session it left
TLS_setBrokerTLSConfig ==
  /\ pc \in {"tls", "configured"}
  /\ \E ca \in CertAnswers(tc) :
       \E r \in { setBrokerTLSConfig(tc, snapshot, net, proxy, ca) } :
         /\ tc' = r.tc
         /\ pc' = IF r.kind = "ok" THEN (IF pc = "tls" THEN "configured" ELSE "reused")
                  ELSE IF r.kind = "err" THEN "failed" ELSE Stopped(r.kind)
         /\ call' = [Count([NoCall EXCEPT !.op = "setBrokerTLSConfig", !.entry = tc], r.n)
                       EXCEPT !.ret = Out(r.kind, r.err)]
         /\ heap' = CacheAfter(r.kind)
  /\ UNCHANGED <<brokerListInstance, proc, now, fetchedAt, hist, net, proxy>>

\* a TLS handshake with the pinned configuration runs its VerifyConnection, on the
\* common name of the leaf certificate the server presents
TLS_VerifyConnection ==
  /\ pc \in {"configured", "reused"}
  /\ tc.tlsConfig.pinned
  /\ \E commonName \in {"cn1", "cn1b", "cn2b", "baz", "cn", "", "broker.example.com"}, chainOK \in BOOLEAN :
       call' = [call EXCEPT !.op = "VerifyConnection", !.peerCN = commonName,
                            !.chainOK = chainOK,
                            !.ret = VerifyConnection(tc.tlsConfig, commonName, chainOK)]
  /\ pc' = "verified"
  /\ UNCHANGED <<cacheVars, tc, net, proxy>>

\* check bundles on /broker/3 whose submission URL holds the text api.circonus.com
\* outside its host, or inside a longer host name
LookalikeBundles ==
  { Bundle(BundleCID, <<"/broker/3">>, <<"httptrap">>, TRUE, u, statusActive, <<"u1">>) :
      u \in { URL("https", "10.0.0.3", "/api.circonus.com/trap"),
              URL("https", "api.circonus.com.example.net", "/module/httptrap/u1/s") } }

\* the sessions New and NewFromCheckBundle have built when they call
\* initBrokerList and setBrokerTLSConfig, with the cache populated
InitTLS ==
  /\ heap = << [NewCache(TRUE, TRUE) EXCEPT !.brokers = Ptr(BrokerOrder)] >>
  /\ fetchedAt = << 0 >>
  /\ brokerListInstance = 1
  /\ proc = [g \in Goroutines |-> IdleProc]
  /\ now = 0
  /\ hist = NoHist
  /\ net \in { NetUp, [h \in ProbeHosts |-> IF h = "10.0.0.2" THEN 2 ELSE retries] }
  /\ proxy \in BOOLEAN
  /\ \/ \E cfg \in Configs : \E e \in EnterAnswers(cfg) :
          \E r \in { New_enter(cfg, Ptr(BrokerOrder), net, proxy, e) } :
            /\ r.kind = "ok"
            /\ tc = [r.tc EXCEPT !.brokerList = 1]
     \/ \E cfg \in FromBundleConfigs, bundle \in UserBundles \cup LookalikeBundles :
          \E r \in { NewFromCheckBundle_enter(cfg, bundle) } :
            /\ r.kind = "ok"
            /\ tc = [r.tc EXCEPT !.brokerList = 1]
  /\ pc = "tls"
  /\ call = NoCall

SpecTLS == InitTLS /\ [][TLS_setBrokerTLSConfig \/ TLS_VerifyConnection]_vars


(***************************************************************************)
(* isValidBroker on its own: brokers made of up to MaxInstances instances,  *)
(* validated for a check type under each state of the network and of the    *)
(* proxy environment.                                                       *)
(***************************************************************************)
MaxInstances == 3

\* the instances a broker may list: with an IP, with neither IP nor external host,
\* with a special-cased public host name, not active, with another module, with an
\* external host and an internal port
ValidInstances ==
  { Detail(statusActive, <<"httptrap">>, "10.0.0.1", 0, NoStr, 0, "va"),
    Detail(statusActive, <<"httptrap">>, NoStr, 8443, NoStr, 0, "vb"),
    Detail(statusActive, <<"httptrap">>, "10.0.0.2", 8080, "trap.noit.circonus.net", 4443, "vc"),
    Detail("provisioning", <<"httptrap">>, "10.0.0.3", 0, NoStr, 0, "vd"),
    Detail(statusActive, <<"json">>, "10.0.0.3", 0, NoStr, 43190, "ve"),
    Detail(statusActive, <<"json", "httptrap">>, "10.0.0.4", 1234, "10.0.0.9", 0, "vf") }

\* the lists of at most n of these instances
RECURSIVE DetailLists(_)
DetailLists(n) ==
  IF n = 0 THEN { << >> }
  ELSE LET shorter == DetailLists(n - 1)
       IN  shorter \cup { Append(l, d) : l \in { x \in shorter : Len(x) = n - 1 },
                                          d \in ValidInstances }

\* per host, the number of dials that fail before one succeeds (retries: all fail)
ValidNets ==
  { [h \in ProbeHosts \cup {"trap.noit.circonus.net"} |-> f] : f \in {0, retries} }
  \cup { [h \in ProbeHosts \cup {"trap.noit.circonus.net"} |->
            IF h = "10.0.0.9" THEN retries - 1 ELSE retries] }

\* tc.isValidBroker(&broker, checkType) is called and returns
isValidBroker_call ==
  /\ pc = "isValidBroker"
  /\ \E r \in { isValidBrokerOn([Type |-> call.arg, Details |-> call.details],
                                 call.checkType, net, proxy) } :
       call' = [call EXCEPT !.valid = r.valid, !.dials = r.dials,
                            !.ret = IF r.err = "" THEN Out("ok", "") ELSE Out("err", r.err)]
  /\ pc' = "validated"
  /\ UNCHANGED <<cacheVars, tc, net, proxy>>

InitValid ==
  /\ heap = << >>
  /\ fetchedAt = << >>
  /\ brokerListInstance = 0
  /\ proc = [g \in Goroutines |-> IdleProc]
  /\ now = 0
  /\ hist = NoHist
  /\ net \in ValidNets
  /\ proxy \in BOOLEAN
  /\ tc = NoSession
  /\ pc = "isValidBroker"
  /\ \E type \in {circonusType, enterpriseType, "unknown"},
        details \in DetailLists(MaxInstances),
        checkType \in { <<"httptrap">>, <<"httptrap", "cua">>, <<"json">> } :
       call = [NoCall EXCEPT !.op = "isValidBroker", !.arg = type, !.details = details,
                             !.checkType = checkType]

SpecValid == InitValid /\ [][isValidBroker_call]_vars


(***************************************************************************)
(* findCheckBundle on its own: a configuration of some check type and each  *)
(* answer the search of the API can give, up to MaxBundles bundles.         *)
(***************************************************************************)
MaxBundles == 3

\* the check bundles a search may list
FoundBundles ==
  { Bundle(cid, <<"/broker/1">>, type, TRUE, BrokerURL("/broker/1"), statusActive, <<"u1">>) :
      cid \in {"/check_bundle/1", "/check_bundle/2"},
      type \in { <<"httptrap">>, <<"httptrap", "cua">> } }

\* the lists of at most n of them
RECURSIVE BundleLists(_)
BundleLists(n) ==
  IF n = 0 THEN { << >> }
  ELSE LET shorter == BundleLists(n - 1)
       IN  shorter \cup { Append(l, b) : l \in { x \in shorter : Len(x) = n - 1 },
                                          b \in FoundBundles }

\* tc.findCheckBundle(cfg) is called on a session without check bundle and returns
findCheckBundle_call ==
  /\ pc = "findCheckBundle"
  /\ \E f \in { findCheckBundle([NilBundle EXCEPT !.nil = FALSE, !.Type = call.checkType],
                                 call.search) } :
       /\ tc' = IF f.found THEN [tc EXCEPT !.checkBundle = f.bundle] ELSE tc
       /\ call' = [call EXCEPT !.found = f.found,
                               !.ret = IF f.err = "" THEN Out("ok", "") ELSE Out("err", f.err)]
  /\ pc' = "searched"
  /\ UNCHANGED <<cacheVars, net, proxy>>

InitFind ==
  /\ heap = << >>
  /\ fetchedAt = << >>
  /\ brokerListInstance = 0
  /\ proc = [g \in Goroutines |-> IdleProc]
  /\ now = 0
  /\ hist = NoHist
  /\ net = NetUp
  /\ proxy = FALSE
  /\ tc = NoSession
  /\ pc = "findCheckBundle"
  /\ \E type \in { <<"httptrap">>, <<"httptrap", "cua">> },
        search \in { [ok |-> FALSE, list |-> << >>] }
                   \cup { [ok |-> TRUE, list |-> l] : l \in BundleLists(MaxBundles) } :
       call = [NoCall EXCEPT !.op = "findCheckBundle", !.checkType = type, !.search = search]

SpecFind == InitFind /\ [][findCheckBundle_call]_vars


(***************************************************************************)
(* UpdateCheckTags (check_tags.go) on its own: a check bundle with some     *)
(* tags, a list of requested tags, and the API accepting the update or not. *)
(* The Tags of tc.checkBundle before and after the call are kept with the   *)
(* call.                                                                    *)
(***************************************************************************)
MaxTags == 2

\* the place of the first ":" in tag, 0 when there is none
RECURSIVE ColonAt(_, _)
ColonAt(tag, i) ==
  IF i > Len(tag) THEN 0
  ELSE IF SubSeq(tag, i, i) = ":" THEN i ELSE ColonAt(tag, i + 1)

\* strings.SplitN(tag, ":", 2)
SplitN(tag) ==
  IF ColonAt(tag, 1) = 0 THEN <<tag>>
  ELSE <<SubSeq(tag, 1, ColonAt(tag, 1) - 1), SubSeq(tag, ColonAt(tag, 1) + 1, Len(tag))>>

\* UpdateCheckTags: for j, ctag := range tc.checkBundle.Tags, from place j on
RECURSIVE ctagLoop(_, _, _)
ctagLoop(tag, ctags, j) ==
  IF j > Len(ctags) THEN [found |-> FALSE, update |-> FALSE, tags |-> ctags]
  ELSE IF tag = ctags[j] THEN [found |-> TRUE, update |-> FALSE, tags |-> ctags]
  ELSE IF /\ Len(SplitN(tag)) = Len(SplitN(ctags[j]))
          /\ SplitN(tag)[1] = SplitN(ctags[j])[1]
          /\ SplitN(tag)[2] # SplitN(ctags[j])[2]
  THEN [found |-> TRUE, update |-> TRUE, tags |-> [ctags EXCEPT ![j] = tag]]
  ELSE ctagLoop(tag, ctags, j + 1)

\* UpdateCheckTags: for _, tag := range tags, from place i on
RECURSIVE tagLoop(_, _, _, _)
tagLoop(tags, i, ctags, update) ==
  IF i > Len(tags) THEN [update |-> update, tags |-> ctags]
  ELSE IF tags[i] = "" THEN tagLoop(tags, i + 1, ctags, update)
  ELSE LET r == ctagLoop(tags[i], ctags, 1) IN
       IF r.found THEN tagLoop(tags, i + 1, r.tags, update \/ r.update)
       ELSE tagLoop(tags, i + 1, Append(ctags, tags[i]), TRUE)

\* func (tc) UpdateCheckTags(ctx, tags); hasBundle: tc.checkBundle != nil, ctags its
\* Tags; apiOK: client.UpdateCheckBundle succeeds.  val: the bundle returned, or nil
UpdateCheckTags(hasBundle, ctags, tags, apiOK) ==
  IF ~hasBundle
  THEN [err |-> "invalid state, check bundle is nil", val |-> "nil", tags |-> ctags, n |-> 0]
  ELSE IF Len(tags) = 0 THEN [err |-> "", val |-> "nil", tags |-> ctags, n |-> 0]
  ELSE LET r == tagLoop(tags, 1, ctags, FALSE) IN
       IF ~r.update THEN [err |-> "", val |-> "nil", tags |-> r.tags, n |-> 0]
       ELSE IF ~apiOK
       THEN [err |-> "api updating check bundle tags", val |-> "nil", tags |-> r.tags, n |-> 1]
       ELSE [err |-> "", val |-> "bundle", tags |-> r.tags, n |-> 1]

\* the lists of at most n of the strings in set
RECURSIVE TagLists(_, _)
TagLists(set, n) ==
  IF n = 0 THEN { << >> }
  ELSE LET shorter == TagLists(set, n - 1)
       IN  shorter \cup { Append(l, t) : l \in { x \in shorter : Len(x) = n - 1 }, t \in set }

\* tc.UpdateCheckTags(ctx, tags) is called and returns
UpdateCheckTags_call ==
  /\ pc = "UpdateCheckTags"
  /\ \E apiOK \in BOOLEAN :
     \E r \in { UpdateCheckTags(~tc.checkBundle.nil, call.bundleTags, call.newTags, apiOK) } :
       call' = [call EXCEPT !.tagsAfter = r.tags, !.nUpdate = r.n, !.arg = r.val,
                            !.ret = IF r.err = "" THEN Out("ok", "") ELSE Out("err", r.err)]
  /\ pc' = "tagged"
  /\ UNCHANGED <<cacheVars, tc, net, proxy>>

InitTags ==
  /\ heap = << >>
  /\ fetchedAt = << >>
  /\ brokerListInstance = 0
  /\ proc = [g \in Goroutines |-> IdleProc]
  /\ now = 0
  /\ hist = NoHist
  /\ net = NetUp
  /\ proxy = FALSE
  /\ tc \in { NoSession, [NoSession EXCEPT !.checkBundle = BundleOn("/broker/1")] }
  /\ pc = "UpdateCheckTags"
  /\ \E ctags \in TagLists({"foo", "cat:a", "cat:b"}, MaxTags),
        tags \in TagLists({"", "foo", "bar", "cat:a", "cat:b"}, MaxTags) :
       call = [NoCall EXCEPT !.op = "UpdateCheckTags", !.bundleTags = ctags, !.newTags = tags]

SpecTags == InitTags /\ [][UpdateCheckTags_call]_vars


(***************************************************************************)
(* Tracing: the sessions New builds for each trace setting, TraceMetrics    *)
(* and SendMetrics called on them.                                          *)
(***************************************************************************)
\* variant of TraceMetrics that stores the setting before validating it
TraceMetrics_storeFirst ==
  /\ pc = "idle"
  /\ tc.live
  /\ \E trace \in {"", "-", "/trace", "/nodir"} :
       /\ call' = [NoCall EXCEPT !.op = "TraceMetrics", !.entry = tc, !.arg = trace,
                                 !.prev = tc.traceMetrics,
                                 !.ret = IF trace # "" /\ ~TraceDirOK(trace)
                                         THEN Out("err", "trace metrics: " \o trace)
                                         ELSE Out("ok", "")]
       /\ tc' = [tc EXCEPT !.traceMetrics = trace]
  /\ pc' = "idle"
  /\ UNCHANGED <<cacheVars, net, proxy>>

\* func (tc) TraceMetrics(trace): returns the current setting, or it and an error
TraceMetrics_call ==
  /\ pc = "idle"
  /\ tc.live
  /\ \E trace \in {"", "-", "/trace", "/nodir"} :
       IF trace # "" /\ ~TraceDirOK(trace) THEN
         /\ call' = [NoCall EXCEPT !.op = "TraceMetrics", !.entry = tc, !.arg = trace,
                                   !.prev = tc.traceMetrics,
                                   !.ret = Out("err", "trace metrics: " \o trace)]
         /\ tc' = tc
       ELSE
         /\ call' = [NoCall EXCEPT !.op = "TraceMetrics", !.entry = tc, !.arg = trace,
                                   !.prev = tc.traceMetrics, !.ret = Out("ok", "")]
         /\ tc' = [tc EXCEPT !.traceMetrics = trace]
  /\ pc' = "idle"
  /\ UNCHANGED <<cacheVars, net, proxy>>

\* the configurations with a trace setting: for an agent, and for a check by CID
TraceConfigs ==
  { MakeConfig(TRUE, NilBundle, FALSE, AgentURL, FALSE, trace, "", "", << >>) :
      trace \in {"", "-", "/trace", "/nodir"} }
  \cup { MakeConfig(TRUE, ConfigByCID, FALSE, NoURL, FALSE, "/trace", "", "", << >>) }

\* the sessions New returns for these configurations, with the cache populated
InitTrace ==
  /\ heap = << [NewCache(TRUE, TRUE) EXCEPT !.brokers = Ptr(BrokerOrder)] >>
  /\ fetchedAt = << 0 >>
  /\ brokerListInstance = 1
  /\ proc = [g \in Goroutines |-> IdleProc]
  /\ now = 0
  /\ hist = NoHist
  /\ net = NetUp
  /\ proxy = FALSE
  /\ \E cfg \in TraceConfigs : \E e \in EnterAnswers(cfg) :
       \E r \in { New_enter(cfg, Ptr(BrokerOrder), net, proxy, e) } :
         /\ r.kind = "ok"
         /\ \E r2 \in { setBrokerTLSConfig([r.tc EXCEPT !.brokerList = 1], Ptr(BrokerOrder),
                                           net, proxy, "pem") } :
              /\ r2.kind = "ok"
              /\ tc = [r2.tc EXCEPT !.live = TRUE]
  /\ pc = "idle"
  /\ call = NoCall

NextTrace ==
  \/ TraceMetrics_call
  \/ SendMetrics_call
  \/ submit_begin
  \/ submit_attempt
  \/ SendMetrics_refresh
  \/ SendMetrics_return

SpecTrace == InitTrace /\ [][NextTrace]_vars


(***************************************************************************)
(* Submissions of sessions made from a check bundle the caller supplies,    *)
(* among them bundles whose URL holds the public name outside its host.     *)
(***************************************************************************)
\* the sessions NewFromCheckBundle returns for these bundles, with the cache
\* populated and the CA certificate served
InitSend ==
  /\ heap = << [NewCache(TRUE, TRUE) EXCEPT !.brokers = Ptr(BrokerOrder)] >>
  /\ fetchedAt = << 0 >>
  /\ brokerListInstance = 1
  /\ proc = [g \in Goroutines |-> IdleProc]
  /\ now = 0
  /\ hist = NoHist
  /\ net = NetUp
  /\ proxy = FALSE
  /\ \E bundle \in LookalikeBundles \cup { BundleOn("/broker/1") } :
       \E r \in { NewFromCheckBundle_enter(
                    MakeConfig(TRUE, NilBundle, FALSE, NoURL, FALSE, "", "", "", << >>),
                    bundle) } :
         /\ r.kind = "ok"
         /\ \E r2 \in { setBrokerTLSConfig([r.tc EXCEPT !.brokerList = 1], Ptr(BrokerOrder),
                                           net, proxy, "pem") } :
              /\ r2.kind = "ok"
              /\ tc = [r2.tc EXCEPT !.live = TRUE]
  /\ pc = "idle"
  /\ call = NoCall

NextSend ==
  \/ SendMetrics_call
  \/ submit_begin
  \/ submit_attempt
  \/ SendMetrics_refresh
  \/ SendMetrics_return

SpecSend == InitSend /\ [][NextSend]_vars


(***************************************************************************)
(* Claims about SendMetrics and submit.                                     *)
(***************************************************************************)
\* a SendMetrics call that has returned to the application
SendMetricsReturned == pc = "idle" /\ call.op = "SendMetrics" /\ call.ret.kind # "-"

\* C1: on a session without a custom submission URL, a SendMetrics call whose
\* first submit ends with HTTP 404 invokes refreshCheck exactly once; if the
\* refresh succeeds exactly one further submit is made and its outcome is what
\* SendMetrics returns, and otherwise no further submit is made; a call never
\* makes more than two submits or more than one refresh.
C1_RefreshOnceAfter404 ==
  call.op = "SendMetrics" =>
    /\ call.nSubmit <= 2
    /\ call.nRefresh <= 1
    /\ call.nRefresh = 1 => call.first.status = 404
    /\ call.nSubmit = 2 => call.nRefresh = 1 /\ call.refreshed = "ok"
    /\ (SendMetricsReturned /\ call.entry.custSubmissionURL = NoURL /\ call.first.status = 404) =>
         /\ call.nRefresh = 1
         /\ call.refreshed = "ok" => call.nSubmit = 2 /\ call.ret = call.second
         /\ call.refreshed # "ok" => call.nSubmit = 1 /\ call.ret.kind = "err"

\* a call that met 404 on both submits has returned the second outcome
C1_Witness ==
  /\ SendMetricsReturned
  /\ call.entry.custSubmissionURL = NoURL
  /\ call.first.status = 404
  /\ call.nRefresh = 1
  /\ call.nSubmit = 2
  /\ call.second.status = 404
  /\ call.ret = call.second

\* C2: on a session created with a custom submission URL, a SendMetrics call
\* never refreshes and never fetches the check bundle, makes at most one
\* submit, and when the submit ends with HTTP 404 the call returns that error
\* after exactly one submit with checkBundle, submissionURL and tlsConfig as
\* they were when the call began.
C2_Custom404Terminal ==
  (call.op = "SendMetrics" /\ call.entry.custSubmissionURL # NoURL) =>
    /\ call.nRefresh = 0
    /\ call.nFetchBundle = 0
    /\ call.nSubmit <= 1
    /\ call.first.status = 404 =>
         /\ call.nSubmit = 1
         /\ tc.checkBundle = call.entry.checkBundle
         /\ tc.submissionURL = call.entry.submissionURL
         /\ tc.tlsConfig = call.entry.tlsConfig
         /\ pc \in {"SendMetrics_refresh", "idle"}
         /\ SendMetricsReturned =>
              /\ call.ret.kind = "err"
              /\ call.ret.status = 404
              /\ call.ret = call.first

\* a call on a custom submission URL has returned the error of a 404
C2_Witness ==
  /\ SendMetricsReturned
  /\ call.entry.custSubmissionURL # NoURL
  /\ call.first.status = 404
  /\ call.ret.kind = "err"
  /\ call.nSubmit = 1

\* C3: a SendMetrics call with a payload of length zero returns an error at
\* once, without a broker lookup, a CA fetch, an HTTP request, a bundle fetch
\* or a refresh, and leaves the session as it was.
C3_EmptyPayloadLocalError ==
  (call.op = "SendMetrics" /\ call.metricLen = 0) =>
    /\ pc = "idle"
    /\ call.ret.kind = "err"
    /\ call.nLookup = 0
    /\ call.nCA = 0
    /\ call.nFetchBundle = 0
    /\ call.nRefresh = 0
    /\ ~call.httpSent
    /\ tc = call.entry

\* a call with an empty payload has returned its error
C3_Witness ==
  /\ SendMetricsReturned
  /\ call.metricLen = 0
  /\ Len(Payload[call.metricLen]) = 0
  /\ call.ret.err = "no metrics to submit"

\* C4: the request submit hands to the HTTP client carries Content-Encoding:
\* gzip exactly when the payload is longer than 1024 bytes; up to 1024 bytes
\* the body is the payload, above it the body gunzips to the payload; the
\* Content-Length header is the length of the body sent, and so is BytesSent
\* of a successful result.
C4_CompressionThreshold ==
  /\ pc = "http" =>
       /\ call.metricLen >= 1
       /\ (call.req.contentEncoding = "gzip") <=> (call.metricLen > 1024)
       /\ call.req.contentEncoding \in {"", "gzip"}
       /\ call.metricLen <= 1024 => call.req.body = Payload[call.metricLen]
       /\ call.metricLen > 1024 =>
            /\ call.req.body # Payload[call.metricLen]
            /\ Gunzip(call.req.body).ok
            /\ Gunzip(call.req.body).data = Payload[call.metricLen]
       /\ call.req.contentLength = Len(call.req.body)
  /\ (call.op = "SendMetrics" /\ call.first.kind = "ok") =>
       call.first.bytesSent = call.req.contentLength
  /\ (call.op = "SendMetrics" /\ call.second.kind = "ok") =>
       call.second.bytesSent = call.req.contentLength

\* a payload of 1025 bytes is about to be sent compressed
C4_Witness ==
  /\ pc = "http"
  /\ call.metricLen = 1025
  /\ call.req.contentEncoding = "gzip"
  /\ Len(call.req.body) = call.req.contentLength

(***************************************************************************)
(* Claims about the automatic selection of a broker.                        *)
(***************************************************************************)
\* a getBroker call without a configured broker has ended
Selected ==
  /\ call.op = "getBroker"
  /\ call.entry.checkConfig.nil \/ Len(call.entry.checkConfig.Brokers) = 0

\* the candidates the cache hands to that call
Candidates == candidateList(call.entry, snapshot).val

\* the candidates isValidBroker accepts
ValidCandidates ==
  { c \in BrokerCIDs :
      /\ \E k \in 1..Len(Candidates) : Candidates[k] = c
      /\ isValidBroker(c, call.checkType, net, proxy).valid }

C6_SelectedIsValidCandidate ==
  Selected =>
    /\ pc = "selected"
    /\ call.ret.kind \in {"ok", "err"}
    /\ call.ret.kind = "ok" => tc.broker \in ValidCandidates
    /\ ValidCandidates = {} =>
         /\ call.ret.kind = "err"
         /\ tc.broker = call.entry.broker

\* one call selected a valid candidate out of several
C6_Witness ==
  /\ Selected /\ pc = "selected"
  /\ call.ret.kind = "ok"
  /\ tc.broker \in ValidCandidates
  /\ Len(Candidates) >= 2
  /\ \E k \in 1..Len(Candidates) : Candidates[k] \notin ValidCandidates

(***************************************************************************)
(* Claims about the broker cache.                                           *)
(***************************************************************************)
\* C7: a RefreshBrokers call made less than 5 minutes after the last successful
\* FetchBrokers on the cache performs no backing API call.
C7_NoFetchWithinTTL ==
  \A g \in Goroutines :
    (proc[g].ret.op = "RefreshBrokers" /\ proc[g].ret.fresh) => proc[g].ret.nApi = 0

\* C8: a GetBroker call that found the snapshot populated but empty is never left
\* waiting for the cache mutex that it holds itself (it can go on to its one
\* FetchBrokers and return).
C8_GetBrokerNotBlockedOnOwnMutex ==
  \A g \in Goroutines :
    (proc[g].op = "GetBroker" /\ proc[g].pc = "FetchBrokers_Lock")
      => heap[proc[g].recv].mu # g

ReadOps == {"GetBrokerList", "GetBroker", "SearchBrokerList"}
ErrorClasses == {"nil", "empty", "absent"}

\* C9: GetBrokerList, GetBroker and SearchBrokerList return an error value in each
\* of the three cache states (never populated, populated but empty, populated
\* without the requested id / tags), the errors of the three states differ, and no
\* call panics or hangs on its own mutex.
C9_DistinctErrorPerCacheState ==
  /\ \A g \in Goroutines :
       (proc[g].ret.op \in ReadOps /\ proc[g].ret.cls \in ErrorClasses)
         => proc[g].ret.kind = "err"
  /\ \A g, h \in Goroutines :
       (/\ proc[g].ret.op \in ReadOps
        /\ proc[g].ret.op = proc[h].ret.op
        /\ proc[g].ret.cls \in ErrorClasses
        /\ proc[h].ret.cls \in ErrorClasses
        /\ proc[g].ret.cls # proc[h].ret.cls)
         => proc[g].ret.err # proc[h].ret.err
  /\ \A g \in Goroutines :
       (proc[g].op \in ReadOps /\ proc[g].pc = "FetchBrokers_Lock")
         => heap[proc[g].recv].mu # g

\* C10: once two or more Init calls (valid client and logger) on an uninitialised
\* cache have all returned, with every backing fetch successful, the backing
\* FetchBrokers API was called exactly once, one cache struct exists and every
\* Init call returned nil.
C10_ConcurrentInitFetchesOnce ==
  (/\ hist.initCalls >= 2
   /\ hist.initDone = hist.initCalls
   /\ hist.initApiFail = 0
   /\ hist.otherCalls = 0)
    => (hist.initApi = 1 /\ Len(heap) = 1 /\ hist.initNil = hist.initCalls)

\* C11: whenever Init has returned nil and no call on the cache is in progress,
\* the cache is populated: the package holds a cache whose snapshot is not nil,
\* so GetBrokerList cannot fail with "invalid state, broker list is nil" (a
\* later Init fetches again when the first Init's fetch failed).
C11_InitOkMeansPopulated ==
  \A g \in Goroutines :
    (/\ \A h \in Goroutines : proc[h].pc = "idle"
     /\ proc[g].ret.op = "Init" /\ proc[g].ret.kind = "ok") =>
      /\ brokerListInstance # 0
      /\ ~heap[brokerListInstance].brokers.nil
      /\ GetBrokerListResult(heap[brokerListInstance].brokers).err
           # "invalid state, broker list is nil"


\* the positions at which an operation reads or replaces the snapshot
SnapshotAccess ==
  {"FetchBrokers_api", "GetBrokerList_body", "GetBroker_body", "SearchBrokerList_body",
   "brokers_GetBroker_body", "brokers_Search_nil", "brokers_Search_len",
   "brokers_Search_range"}

\* C12: a goroutine that is about to read or replace the snapshot in FetchBrokers,
\* GetBrokerList, GetBroker or SearchBrokerList holds the mutex of the cache it
\* works on, so no two goroutines access the snapshot at the same time.
C12_SnapshotAccessUnderMutex ==
  \A g \in Goroutines :
    proc[g].pc \in SnapshotAccess => heap[proc[g].recv].mu = g

\* broker cid carries tag st (case-insensitive, whole tag)
HasTag(cid, st) ==
  \E k \in 1..Len(BrokerDB[cid].Tags) : EqualFold(BrokerDB[cid].Tags[k], st)

\* C13: every broker a successful SearchBrokerList returns carries every required
\* tag: each tag of the query equals, case-insensitively and as a whole tag, some
\* tag of the broker (repeated and case-variant tags included).
C13_SearchReturnsSupersets ==
  \A g \in Goroutines :
    (proc[g].pc = "idle" /\ proc[g].ret.op = "SearchBrokerList" /\ proc[g].ret.kind = "ok") =>
      \A k \in 1..Len(proc[g].ret.val) :
        \A j \in 1..Len(proc[g].tags) : HasTag(proc[g].ret.val[k], proc[g].tags[j])

\* the comma-separated entries of the string s
Entries(s) ==
  { SubSeq(s, p[1], p[2]) :
      p \in { q \in (1..(Len(s) + 1)) \X (0..Len(s)) :
                /\ q[1] <= q[2] + 1
                /\ q[1] = 1 \/ SubSeq(s, q[1] - 1, q[1] - 1) = ","
                /\ q[2] = Len(s) \/ SubSeq(s, q[2] + 1, q[2] + 1) = ","
                /\ ~Contains(SubSeq(s, q[1], q[2]), ",") } }

\* C14: the VerifyConnection callback of a pinned configuration lets a peer past
\* the name check only if the peer's common name equals one of the comma-separated
\* entries of the CN list; every other peer is rejected with a name mismatch,
\* whatever its chain.
C14_PeerCNIsListEntry ==
  (pc = "verified" /\ call.ret.err # "x509: name mismatch") =>
    call.peerCN \in Entries(tc.tlsConfig.cnList)

\* the instances of a broker that are active and whose IP or external host is host
ActiveMatching(details, host) ==
  { k \in 1..Len(details) :
      /\ details[k].Status = statusActive
      /\ details[k].IP = host \/ details[k].ExternalHost = host }

\* the CNs of the instances in M, in the order of the instances
CNsInOrder(details, M) ==
  [i \in 1..Cardinality(M) |->
     details[CHOOSE k \in M : Cardinality({ j \in M : j < k }) = i - 1].CN]

\* setBrokerTLSConfig has gone past its short-circuits on a session whose check
\* bundle has an IP literal as the host of its submission URL, with the broker known
CNListComputed ==
  /\ call.op = "setBrokerTLSConfig"
  /\ pc \in {"configured", "failed"}
  /\ call.entry.tlsConfig.nil
  /\ call.entry.submissionURL.scheme # "http"
  /\ ~call.entry.custTLSConfig
  /\ isPublicBroker(call.entry).err = ""
  /\ ~isPublicBroker(call.entry).public
  /\ tc.broker # NoStr
  /\ IsIP(tc.checkBundle.url.host)

\* C15: for an IP-literal host the primary CN is the CN of the first active
\* instance of the broker whose IP or external host is the host, and the CN list is
\* the CNs of all such instances, in instance order, joined by commas; inactive
\* instances contribute nothing, and when no active instance matches the set-up
\* fails with "unable to match" and pins nothing.
C15_CNListFromActiveMatches ==
  CNListComputed =>
    LET details == BrokerDB[tc.broker].Details
        M == ActiveMatching(details, tc.checkBundle.url.host)
    IN  IF M = {}
        THEN /\ call.ret.err = "broker cn list: unable to match URL host to broker instance"
             /\ tc.tlsConfig.nil
        ELSE /\ call.ret.kind = "ok" =>
                  /\ tc.tlsConfig.pinned
                  /\ tc.tlsConfig.ServerName = CNsInOrder(details, M)[1]
                  /\ Entries(tc.tlsConfig.cnList) = { details[k].CN : k \in M }
                  /\ tc.tlsConfig.cnList = Join(CNsInOrder(details, M), ",")
             /\ call.ret.kind = "err" =>
                  /\ tc.tlsConfig.nil
                  /\ call.ret.err \in { fetchCert(ca) : ca \in CertResults \ {"pem"} }

\* several active instances match, an inactive one does too
C15_Witness ==
  /\ CNListComputed
  /\ tc.broker = "/broker/1"
  /\ tc.tlsConfig.pinned
  /\ tc.tlsConfig.ServerName = "cn1"
  /\ tc.tlsConfig.cnList = "cn1,cn1b"

\* no active instance matches: the host is that of a provisioning instance
C15_WitnessNoMatch ==
  /\ CNListComputed
  /\ tc.broker = "/broker/2"
  /\ tc.checkBundle.url.host = "10.0.0.9"
  /\ call.ret.kind = "err"

\* C16: a name mismatch ends the submit it occurs in and clears the session's TLS
\* configuration and broker: a submit in which an attempt has failed with the
\* x509 name mismatch (call.mismatch, kept while retryClient.Do runs) makes no
\* further attempt, and the pinned configuration and the broker are gone.
C16_NameMismatchClearsTLS ==
  call.mismatch =>
    /\ pc # "http"
    /\ tc.tlsConfig.nil
    /\ tc.broker = NoStr

\* what the submit that has just returned handed to SendMetrics
LastSubmit(c) == IF c.nSubmit = 1 THEN c.first ELSE c.second

\* C17 as stated: a submit issues at most 7 HTTP attempts in all, so the attempt
\* the retrying client is about to make is never later than the seventh.
C17_AtMostSevenAttempts ==
  pc = "http" => call.attempt + 1 <= 7

\* C17, amended: a submit issues at most 8 HTTP attempts in all, the first and up
\* to 7 retries; the eighth is the last whatever it ends with, and a submit that
\* gives up on its request returns an error with refresh = false.
C17_AtMostEightAttempts ==
  [][ pc = "http" =>
        /\ call.attempt + 1 <= 8
        /\ call.attempt + 1 = 8 => pc' # "http"
        /\ (pc' # "http" /\ LastSubmit(call').err = "making request: giving up after attempt(s)")
             => (LastSubmit(call').kind = "err" /\ ~LastSubmit(call').refresh) ]_vars

\* seven attempts have failed and the eighth is about to be made
C17_Witness ==
  /\ pc = "http"
  /\ call.attempt + 1 = 8
  /\ call.httpSent

\* C18: what a submit hands back for the final response of its request is one of:
\* a result with refresh = false and no error (status 200, parseable body); an
\* error without a result (status 200, unparseable body); an error with refresh =
\* true (status 404, no custom URL); an error with refresh = false (every other
\* status).  It never fails to return, never returns a result with an error and
\* never asks for a refresh without an error.
C18_OutcomeClassification ==
  \A o \in {call.first, call.second} :
    /\ o.status = 200 =>
         \/ o.kind = "ok" /\ o.err = "" /\ ~o.refresh
         \/ o.kind = "err" /\ o.err = "parsing response" /\ ~o.refresh
    /\ (o.status = 404 /\ call.entry.custSubmissionURL = NoURL) =>
         (o.kind = "err" /\ o.refresh)
    /\ (o.status = 404 /\ call.entry.custSubmissionURL # NoURL) =>
         (o.kind = "err" /\ ~o.refresh)
    /\ o.status \notin {0, 200, 404} => (o.kind = "err" /\ ~o.refresh)
    /\ o.kind = "ok" => o.err = ""
    /\ o.refresh => o.kind = "err"

\* setBrokerTLSConfig has returned success without looking a broker up and
\* without fetching the CA certificate
NoLookupNoFetch ==
  /\ call.ret.kind = "ok"
  /\ call.nLookup = 0
  /\ call.nCA = 0

\* C19: setBrokerTLSConfig stops at the first short-circuit that applies -- (1) a
\* cached TLS configuration is left as it is; (2) an http URL leaves tlsConfig
\* nil; (3) a caller-supplied configuration is cloned into tlsConfig; (4) a
\* destination that is the public endpoint leaves tlsConfig nil -- and in all
\* four it succeeds with no broker look-up and no fetch of the CA certificate.
C19_ShortCircuitOrder ==
  call.op = "setBrokerTLSConfig" =>
    LET e == call.entry IN
    /\ ~e.tlsConfig.nil => (NoLookupNoFetch /\ tc = e)
    /\ (e.tlsConfig.nil /\ e.submissionURL.scheme = "http") =>
         (NoLookupNoFetch /\ tc.tlsConfig.nil)
    /\ (e.tlsConfig.nil /\ e.submissionURL.scheme # "http" /\ e.custTLSConfig) =>
         (NoLookupNoFetch /\ ~tc.tlsConfig.nil /\ ~tc.tlsConfig.pinned)
    /\ (/\ e.tlsConfig.nil
        /\ e.submissionURL.scheme # "http"
        /\ ~e.custTLSConfig
        /\ ContainsPublicName(e.submissionURL)) =>
         (NoLookupNoFetch /\ tc.tlsConfig.nil)

\* C20: on a session created with the PublicCA flag and an https submission URL
\* setBrokerTLSConfig succeeds and leaves tlsConfig nil, with no broker look-up,
\* no fetch of the CA certificate and no pinning, whatever the host of the URL.
C20_PublicCANeverPins ==
  (/\ call.op = "setBrokerTLSConfig"
   /\ call.entry.usingPublicCA
   /\ call.entry.submissionURL.scheme = "https") =>
    (NoLookupNoFetch /\ tc.tlsConfig.nil /\ ~tc.tlsConfig.pinned)

\* C21: with tracing enabled, whatever fails in the trace step of a submit, the
\* submit goes on to its HTTP request: once the trace step has run the request,
\* with the body made from the payload, is pending or has been sent.
C21_TraceNeverAbortsSubmit ==
  (call.op = "SendMetrics" /\ call.trace \notin {"-", "none"}) =>
    /\ pc = "http" \/ call.httpSent
    /\ pc = "http" => call.req.body = subData(Payload[call.metrics])

(***************************************************************************)
(* Claims about tracing.                                                    *)
(***************************************************************************)
\* C22: TraceMetrics(trace) returns the setting in effect before the call; when
\* trace is non-empty and fails validation it returns an error and the setting
\* is unchanged; otherwise it returns no error and the setting becomes trace;
\* a submit made while the setting is empty does no tracing.
C22_TraceMetricsSetting ==
  /\ call.op = "TraceMetrics" =>
       /\ call.prev = call.entry.traceMetrics
       /\ IF call.arg # "" /\ ~TraceDirOK(call.arg)
          THEN call.ret.kind = "err" /\ tc.traceMetrics = call.entry.traceMetrics
          ELSE call.ret.kind = "ok" /\ tc.traceMetrics = call.arg
  /\ (call.op = "SendMetrics" /\ call.entry.traceMetrics = "" /\ (pc = "http" \/ call.httpSent)) =>
       call.trace = "none"

\* a rejected TraceMetrics call on a session that was tracing to a directory
C22_Witness ==
  /\ call.op = "TraceMetrics"
  /\ call.arg = "/nodir"
  /\ call.ret.kind = "err"
  /\ call.prev = "/trace"
  /\ tc.traceMetrics = "/trace"

\* a submit that went untraced after TraceMetrics("") disabled tracing
C22_WitnessDisabled ==
  /\ call.op = "SendMetrics"
  /\ call.httpSent
  /\ call.trace = "none"
  /\ call.entry.traceMetrics = ""

(***************************************************************************)
(* Claims about New and the explicit-broker path.                           *)
(***************************************************************************)
\* the errors New reports for an invalid configuration
ConfigErrors ==
  {"invalid configuration  (nil)", "invalid configuration (nil api client)",
   "check type must be httptrap variant", "parsing broker max response time",
   "parsing submission timeout"}

\* C23: when New rejects its configuration (nil config, nil API client, a check
\* type that is no httptrap variant, a malformed BrokerMaxResponseTime or
\* SubmissionTimeout) it returns no session and has made no API call: no check
\* bundle request, no broker lookup and no CA fetch.
C23_InvalidConfigBeforeAPI ==
  (call.op = "New" /\ call.ret.kind = "err" /\ call.ret.err \in ConfigErrors) =>
    /\ tc = NoSession
    /\ call.nFetchBundle = 0
    /\ call.nLookup = 0
    /\ call.nCA = 0

\* C24: fetchBroker answers a broker that is absent from the cache or fails its
\* validation with an error value: no call of the session ends in the panic of
\* a nil pointer dereference, whatever the session's broker reference and check
\* configuration are.
C24_FetchBrokerNeverPanics ==
  ~(pc = "crashed" /\ call.ret.kind = "panic" /\ call.ret.err = "nil pointer dereference")

(***************************************************************************)
(* Claims about the cache's FetchBrokers.                                   *)
(***************************************************************************)
\* C25: a FetchBrokers whose API call fails returns an error that wraps the API
\* error and leaves the snapshot as it was; one whose API call succeeds returns
\* nil and the snapshot is one of the lists the API can answer, whole.
C25_FetchBrokersSnapshot ==
  [][\A g \in Goroutines :
       (/\ proc[g].pc = "FetchBrokers_api"
        /\ proc[g].op \in {"FetchBrokers", "RefreshBrokers"}
        /\ heap[proc[g].recv].client
        /\ proc'[g].pc = "idle") =>
          /\ proc'[g].ret.kind \in {"ok", "err"}
          /\ proc'[g].ret.kind = "err" =>
               /\ proc'[g].ret.err = "error fetching broker list"
               /\ heap'[proc[g].recv].brokers = heap[proc[g].recv].brokers
          /\ proc'[g].ret.kind = "ok" =>
               heap'[proc[g].recv].brokers \in { Ptr(l) : l \in ConcurrentApiLists }]_vars

\* a FetchBrokers has failed and the list fetched before it is still the snapshot
C25_Witness ==
  \E g \in Goroutines :
    /\ proc[g].pc = "idle"
    /\ proc[g].ret.op = "FetchBrokers"
    /\ proc[g].ret.kind = "err"
    /\ GetBrokerListResult(heap[proc[g].recv].brokers).kind = "ok"

(***************************************************************************)
(* Claims about the pinned TLS configuration and the broker validation.     *)
(***************************************************************************)
\* C26: on a session pinned for a submission URL whose host is a name, not an IP
\* address, the verification callback accepts a peer whose leaf certificate has
\* that host name as its common name and whose chain verifies against the pool.
C26_ExpectedCNAccepted ==
  (/\ call.op = "VerifyConnection"
   /\ tc.tlsConfig.pinned
   /\ ~IsIP(tc.checkBundle.url.host)
   /\ call.peerCN = tc.checkBundle.url.host
   /\ call.chainOK) =>
     call.ret.kind = "ok"

\* the instance has a host of its own: an external host or an IP
HasHost(d) == d.ExternalHost # NoStr \/ d.IP # NoStr

\* the instance is active and advertises the base module of the check type
ActiveCapable(d, checkType) ==
  /\ d.Status = statusActive
  /\ \E k \in 1..Len(d.Modules) : d.Modules[k] = checkType[1]

\* the probe target made from the fields of instance d alone
OwnHost(d) == IF d.ExternalHost # NoStr THEN d.ExternalHost ELSE d.IP
OwnPort(d) ==
  IF OwnHost(d) \in {"trap.noit.circonus.net", "api.circonus.net"} THEN 443
  ELSE IF d.ExternalPort # 0 THEN d.ExternalPort
  ELSE IF d.Port # 0 THEN d.Port ELSE 43191

\* C27: every probe isValidBroker makes is for an active instance with the
\* capability that has a host of its own, and goes to that instance's own host
\* (external host, else IP) and port (external port, else internal port, else
\* 43191; 443 for the special-cased public names): an instance with neither
\* external host nor IP is never probed.
C27_ProbeTargetFromOwnFields ==
  pc = "validated" =>
    \A i \in 1..Len(call.dials) :
      \E k \in 1..Len(call.details) :
        /\ call.details[k].CN = call.dials[i].cn
        /\ ActiveCapable(call.details[k], call.checkType)
        /\ HasHost(call.details[k])
        /\ call.dials[i].host = OwnHost(call.details[k])
        /\ call.dials[i].port = OwnPort(call.details[k])

\* the instances eligible for the probe: active and with the capability
EligibleInstances ==
  { k \in 1..Len(call.details) : ActiveCapable(call.details[k], call.checkType) }

\* the probes of a call: at most 5 dials each, all but the last with 5 failed
\* dials, the last one successful exactly when the broker is valid; the call
\* returns true exactly when its error is nil
ProbesWellFormed ==
  /\ \A i \in 1..Len(call.dials) :
       /\ call.dials[i].n \in 1..5
       /\ i < Len(call.dials) => call.dials[i].n = 5
       /\ net[call.dials[i].host] >= call.dials[i].n - 1
  /\ (call.valid /\ call.dials # << >>) =>
       net[call.dials[Len(call.dials)].host] = call.dials[Len(call.dials)].n - 1
  /\ ~call.valid =>
       \A i \in 1..Len(call.dials) : call.dials[i].n = 5 /\ net[call.dials[i].host] >= 5
  /\ call.valid <=> call.ret.kind = "ok"
  /\ ~call.valid => call.ret.kind = "err" /\ call.ret.err # ""

\* C28: isValidBroker dials at most 5 times per eligible instance, stops at the
\* first successful dial with the broker valid, goes to the next instance after
\* 5 failed dials, makes at most 5k dials for k eligible instances, and returns
\* (false, error) when no instance passed; it returns true iff the error is nil.
C28_AtMostFiveDialsPerInstance ==
  pc = "validated" =>
    /\ ProbesWellFormed
    /\ Len(call.dials) <= Cardinality(EligibleInstances)

\* the first instance failed its 5 dials and the second passed on its fifth
C28_Witness ==
  /\ pc = "validated"
  /\ call.valid
  /\ Len(call.dials) = 2
  /\ call.dials[1].n = 5
  /\ call.dials[2].n = 5
  /\ net[call.dials[2].host] = 4

\* no instance passed: 5 dials to each of three instances, and an error
C28_WitnessAllFail ==
  /\ pc = "validated"
  /\ ~call.valid
  /\ Len(call.dials) = 3
  /\ call.ret.err = "no valid broker instances found"

\* isValidBroker has returned for a broker of a known type and an httptrap check
\* type with a proxy set in the environment
ValidatedBehindProxy ==
  /\ pc = "validated"
  /\ proxy
  /\ call.checkType[1] = "httptrap"
  /\ call.arg \in {circonusType, enterpriseType}

\* C29: for an httptrap check type with HTTP_PROXY or HTTPS_PROXY set,
\* isValidBroker makes no dial and accepts the broker on its first active
\* instance that advertises the base module, on the capability match alone.
C29_ProxyAcceptsOnCapability ==
  ValidatedBehindProxy =>
    /\ call.dials = << >>
    /\ call.valid <=> EligibleInstances # {}

\* C29, amended: for an httptrap check type with HTTP_PROXY or HTTPS_PROXY set,
\* isValidBroker makes no dial and accepts the broker exactly when one of its
\* active instances advertises the base module and has an external host or IP.
C29_ProxyAcceptsHostedCapable ==
  ValidatedBehindProxy =>
    /\ call.dials = << >>
    /\ call.valid <=> \E k \in EligibleInstances : HasHost(call.details[k])

\* behind a proxy and with every host down, a broker was accepted on its second
\* instance after the first, active and capable but without host, was skipped
C29_Witness ==
  /\ ValidatedBehindProxy
  /\ call.valid
  /\ \A h \in DOMAIN net : net[h] = 5
  /\ Len(call.details) >= 2
  /\ ActiveCapable(call.details[1], call.checkType)
  /\ ~HasHost(call.details[1])

\* C30: a session is left without a pinned configuration as public only when
\* the host of its submission URL is api.circonus.com: setBrokerTLSConfig on an
\* https URL with another host (and no caller-supplied TLS configuration) that
\* returns without error has pinned the broker, also when the text
\* api.circonus.com stands in the path or inside a longer host name.
C30_PublicOnlyByHost ==
  (/\ call.op = "setBrokerTLSConfig"
   /\ pc = "configured"
   /\ call.ret.kind = "ok"
   /\ call.entry.tlsConfig.nil
   /\ call.entry.submissionURL.scheme = "https"
   /\ ~call.entry.custTLSConfig
   /\ call.entry.submissionURL.host # "api.circonus.com") =>
     tc.tlsConfig.pinned

(***************************************************************************)
(* Claims about the result of a submit and about the check bundle.          *)
(***************************************************************************)
\* the results the submits of the current SendMetrics call have returned
SubmitResults == { out \in {call.first, call.second} : out.kind = "ok" }

\* C31: a result returned by a successful submit has a non-empty Error: the
\* error string of the server when its response carried one, else "none"; its
\* BytesSent is the length of the body sent, and its SubmitUUID is "n/a" unless
\* the trace step generated an id for a trace file.
C31_ResultFields ==
  call.op = "SendMetrics" =>
    \A out \in SubmitResults :
      /\ out.resultError # ""
      /\ out.resultError = IF out.serverError # "" THEN out.serverError ELSE "none"
      /\ out.bytesSent = Len(subData(Payload[call.metrics]))
      /\ out.submitUUID = IF call.trace \in {"none", "logged"} THEN "n/a" ELSE "sid"
      /\ out.submitUUID = "sid" => call.entry.traceMetrics \notin {"", "-"}

\* a compressed payload was sent while tracing to a directory whose trace file
\* could not be created, and the server reported no error
C31_Witness ==
  /\ pc = "idle"
  /\ call.op = "SendMetrics"
  /\ call.ret.kind = "ok"
  /\ call.ret.resultError = "none"
  /\ call.ret.submitUUID = "sid"
  /\ call.trace = "not created"
  /\ call.ret.bytesSent # call.metricLen

\* a result with the error string of the server and no submit id
C31_WitnessServerError ==
  /\ call.op = "SendMetrics"
  /\ call.ret.kind = "ok"
  /\ call.ret.resultError = "error"
  /\ call.ret.submitUUID = "n/a"

\* the places in the searched list of the bundles whose type is the configured one
TypedPlaces == { k \in 1..Len(call.search.list) : call.search.list[k].Type = call.checkType }

\* C32: findCheckBundle answers by the number of bundles the search lists: none
\* gives found = false without error; one gives found = true with that bundle;
\* several give found = true with the one bundle of exactly the configured type,
\* and an error when none or more than one has that type; a failed search gives
\* an error.  The session's checkBundle is assigned exactly when found = true.
C32_FindByCount ==
  pc = "searched" =>
    LET list == call.search.list IN
    /\ call.found <=> ~tc.checkBundle.nil
    /\ call.found => call.ret.kind = "ok"
    /\ ~call.search.ok => call.ret.kind = "err" /\ ~call.found
    /\ (call.search.ok /\ Len(list) = 0) => call.ret.kind = "ok" /\ ~call.found
    /\ (call.search.ok /\ Len(list) = 1) => call.found /\ tc.checkBundle = list[1]
    /\ (call.search.ok /\ Len(list) > 1) =>
         IF Cardinality(TypedPlaces) = 1
         THEN call.found /\ \A k \in TypedPlaces : tc.checkBundle = list[k]
         ELSE call.ret.kind = "err" /\ ~call.found

\* of three bundles found the second alone has the configured type and is adopted
C32_Witness ==
  /\ pc = "searched"
  /\ Len(call.search.list) = 3
  /\ TypedPlaces = {2}
  /\ call.found
  /\ tc.checkBundle = call.search.list[2]

\* two bundles of the configured type: an error, and no bundle adopted
C32_WitnessDuplicates ==
  /\ pc = "searched"
  /\ Cardinality(TypedPlaces) = 2
  /\ call.ret.err = "multiple check bundles found"
  /\ tc.checkBundle.nil

(***************************************************************************)
(* Claims about UpdateCheckTags.                                            *)
(***************************************************************************)
\* every requested tag that is not blank is among the tags of the bundle, verbatim
AllTagsPresent ==
  \A k \in 1..Len(call.newTags) :
    call.newTags[k] # "" => \E j \in 1..Len(call.bundleTags) : call.bundleTags[j] = call.newTags[k]

\* C33: UpdateCheckTags on a session with a check bundle: when every requested
\* tag that is not blank is already among the bundle's tags verbatim (or none is
\* requested) it makes no API update, returns (nil, nil) and leaves the tags as
\* they were; otherwise it makes exactly one API update; it never adds a blank tag.
C33_NoUpdateWhenTagsPresent ==
  (pc = "tagged" /\ ~tc.checkBundle.nil) =>
    /\ AllTagsPresent =>
         /\ call.nUpdate = 0
         /\ call.ret.kind = "ok" /\ call.arg = "nil"
         /\ call.tagsAfter = call.bundleTags
    /\ ~AllTagsPresent => call.nUpdate = 1
    /\ \A j \in 1..Len(call.tagsAfter) : call.tagsAfter[j] # ""

(***************************************************************************)
(* Claims about the refresh of the check and the TLS configuration in use.  *)
(***************************************************************************)
\* C34: when the refreshCheck of a SendMetrics call returns an error, the
\* session's checkBundle and submissionURL are what they were before the call.
C34_FailedRefreshKeepsBundle ==
  (call.op = "SendMetrics" /\ call.nRefresh = 1 /\ call.refreshed = "err") =>
    /\ tc.checkBundle = call.entry.checkBundle
    /\ tc.submissionURL = call.entry.submissionURL

\* C35: whenever submit issues its HTTP request with no TLS client
\* configuration, the scheme of the submission URL is http or its host is the
\* public endpoint api.circonus.com; a request to any other https destination
\* goes out with the caller-supplied configuration or with a pinned one.
C35_NoTLSConfigOnlyHttpOrPublic ==
  pc = "http" =>
    /\ tc.tlsConfig.nil =>
         \/ tc.submissionURL.scheme = "http"
         \/ tc.submissionURL.host = "api.circonus.com"
    /\ (~tc.tlsConfig.nil /\ ~tc.tlsConfig.pinned) => tc.custTLSConfig

\* the session holds the TLS configuration the caller supplied to New
UsesCallerTLS == ~tc.tlsConfig.nil /\ ~tc.tlsConfig.pinned

C36_WitnessMismatch ==
  /\ pc = "http"
  /\ tc.custTLSConfig
  /\ UsesCallerTLS
  /\ call.mismatch
  /\ call.attempt > 0

====
